---- MODULE Spec2Model ----
(***************************************************************************)
(* infrared.city: the Sentinel-2 stackers (sentinel2_web_app.py,           *)
(* sentinel2_multimonth_app.py), the green-space predictor                 *)
(* (greenspace_predictor_app_FINAL.py) and the WorldCover downloader       *)
(* (download_worldcover_sydney.py), modelled as state machines.            *)
(*                                                                         *)
(* Each script is a subsystem of its own with its own variables and its    *)
(* own specification:                                                      *)
(*   SpecIdx   the vegetation-index arithmetic of both stackers            *)
(*   SpecPeriod  one period's files through process_sentinel2_data and     *)
(*             through process_multimonth_sentinel2                        *)
(*   SpecMM    POST /process of the multi-month stacker and                *)
(*             process_multimonth_sentinel2                                *)
(*   SpecAoi   AOI normalisation and the clip geometries of both stackers  *)
(*   SpecPred  predict_green_spaces of the predictor                       *)
(*   SpecDl    the main loop of the WorldCover downloader, clip_to_aoi     *)
(*             and what a run leaves on disk for the next                  *)
(*   SpecWeb   the POST and download endpoints of the three web scripts,   *)
(*             with their temporary directories and two worker threads     *)
(*   SpecServe the POST endpoints of SpecWeb with their threads running    *)
(*   SpecSave  the uploads the two stackers save, by the names the client  *)
(*             sent                                                        *)
(* A specification leaves the variables of the other subsystems at their   *)
(* initial values.                                                         *)
(***************************************************************************)
EXTENDS Integers, Sequences, FiniteSets, TLC

VARIABLES
    \* --- vegetation-index arithmetic (SpecIdx)
    blue, red, nir,         \* the float32 grids the indices read (NoGrid: none)
    ndvi, evi, savi,        \* the three index grids (NoGrid: none)
    \* --- one-period stacker (SpecPeriod)
    sentinel_files,         \* argument of process_sentinel2_data
    s1_result,              \* what the call produced
    \* --- multi-month stacker (SpecMM)
    mm_request,             \* the POST /process request being answered
    month_files_dict,       \* the dict the handler built for the request
    mm_result,              \* what process_multimonth_sentinel2 produced
    mm_response,            \* the response of the handler
    \* --- AOI normalisation (SpecAoi)
    aoi_file,               \* the vector file handed to a stacker
    aoi_norm,               \* the AOI after normalisation
    aoi_geometries,         \* the list handed to rio.clip
    aoi_kept,               \* the pixel centres rio.clip keeps with that list
    aoi_loaded,             \* an AOI file has been read
    aoi_wc,                 \* the AOI as clip_to_aoi of the downloader reads it
    \* --- predictor (SpecPred)
    model_file,             \* the classifier stored at MODEL_PATH, if any
    TRAINED_MODEL,          \* the module global of the predictor
    X_stack,                \* the stack read from the uploaded file
    pred_result,            \* what predict_green_spaces produced
    \* --- WorldCover downloader (SpecDl)
    WORLDCOVER_TILES,       \* the tile names of the run
    dl_disk,                \* what OUTPUT_DIR holds of each tile
    dl_pos,                 \* position of the main loop in WORLDCOVER_TILES
    dl_log,                 \* per tile: calls made for it and what the call gave
    downloaded_tiles,       \* the list the main loop builds
    dl_phase,               \* "loop", "exited" (exit(1)) or "clipped"
    clip_tiles,             \* the tiles clip_to_aoi was called with
    clip_outcome,           \* how clip_to_aoi ended and whether it merged
    temp_merged,            \* the '_temp_merged.tif' file exists
    \* --- the three web scripts as servers (SpecWeb)
    app,                    \* the script that runs: "single", "multi", "predictor"
    next_id,                \* the number the next request gets
    slots,                  \* per worker thread: the request it handles
    tmp_dirs,               \* the tempfile.mkdtemp() directories that exist
    tmp_made,               \* every directory mkdtemp() ever made
    latest_prediction,      \* module global of the predictor (0: None)
    latest_visualization,   \* module global of the predictor (0: None)
    finished,               \* the requests whose response has been sent
    ok_sent,                \* the requests whose response sent was a success
    last_ok,                \* the last request whose handler returned a success
    overlapped,             \* some request began while another was handled
    last_download,          \* the last GET /download/<file_type> and its answer
    handler_error,          \* per worker thread: the exception raised in its
                            \* handler ("": none)
    \* --- the uploads a stacker saves (SpecSave)
    up_request,             \* the script, the month and the file name of an upload
    up_dirs,                \* the directories that exist
    up_written,             \* the paths of the files written from the upload
    up_response             \* the status of the response (0: none yet)

idxVars  == <<blue, red, nir, ndvi, evi, savi>>
s1Vars   == <<sentinel_files, s1_result>>
mmVars   == <<mm_request, month_files_dict, mm_result, mm_response>>
aoiVars  == <<aoi_file, aoi_norm, aoi_geometries, aoi_kept, aoi_loaded, aoi_wc>>
predVars == <<model_file, TRAINED_MODEL, X_stack, pred_result>>
dlVars   == <<WORLDCOVER_TILES, dl_disk, dl_pos, dl_log, downloaded_tiles,
             dl_phase, clip_tiles, clip_outcome, temp_merged>>
webVars  == <<app, next_id, slots, tmp_dirs, tmp_made, latest_prediction,
             latest_visualization, finished, ok_sent, last_ok, overlapped,
             last_download, handler_error>>
upVars   == <<up_request, up_dirs, up_written, up_response>>
vars     == <<idxVars, s1Vars, mmVars, aoiVars, predVars, dlVars, webVars, upVars>>

\* A grid that was not loaded or computed: the function on no pixel.
NoGrid == <<>>

-----------------------------------------------------------------------------
(***************************************************************************)
(* Sequence helpers.                                                       *)
(***************************************************************************)
RECURSIVE SeqsUpTo(_, _)
\* All sequences over S of length 0..n.
SeqsUpTo(S, n) ==
    IF n = 0 THEN {<<>>}
    ELSE LET shorter == SeqsUpTo(S, n - 1)
         IN  shorter \cup {Append(s, x) : s \in shorter, x \in S}

Range(s) == {s[i] : i \in DOMAIN s}

-----------------------------------------------------------------------------
(***************************************************************************)
(* float32 samples.  A sample is NaN (a masked / missing sample), an       *)
(* infinity, or a finite value kept as an exact fraction n/d in lowest     *)
(* terms with d > 0.  The operators follow IEEE-754 for the special cases  *)
(* (x/0, 0/0, NaN propagation); rounding is not modelled.                  *)
(***************************************************************************)
NaN    == [k |-> "nan", n |-> 0, d |-> 1]
PosInf == [k |-> "inf", n |-> 1, d |-> 0]
NegInf == [k |-> "inf", n |-> -1, d |-> 0]

Abs(x) == IF x < 0 THEN -x ELSE x

RECURSIVE Gcd(_, _)
Gcd(a, b) == IF b = 0 THEN a ELSE Gcd(b, a % b)

\* The finite value n/d (d # 0), reduced.
Rat(n, d) ==
    LET g == Gcd(Abs(n), Abs(d))
        s == IF d < 0 THEN -1 ELSE 1
    IN  [k |-> "fin", n |-> (s * n) \div g, d |-> (s * d) \div g]

Int2F(i) == Rat(i, 1)

IsNaN(x)    == x.k = "nan"
IsFinite(x) == x.k = "fin"                  \* np.isfinite
Sign(x)     == IF x.n > 0 THEN 1 ELSE IF x.n < 0 THEN -1 ELSE 0

FNeg(x) == IF x.k = "nan" THEN NaN ELSE [x EXCEPT !.n = -x.n]

FAdd(x, y) ==
    IF IsNaN(x) \/ IsNaN(y) THEN NaN
    ELSE IF x.k = "inf" /\ y.k = "inf" THEN (IF x.n = y.n THEN x ELSE NaN)
    ELSE IF x.k = "inf" THEN x
    ELSE IF y.k = "inf" THEN y
    ELSE Rat(x.n * y.d + y.n * x.d, x.d * y.d)

FSub(x, y) == FAdd(x, FNeg(y))

FMul(x, y) ==
    IF IsNaN(x) \/ IsNaN(y) THEN NaN
    ELSE IF x.k = "inf" \/ y.k = "inf"
         THEN (IF Sign(x) * Sign(y) = 0 THEN NaN
               ELSE IF Sign(x) * Sign(y) > 0 THEN PosInf ELSE NegInf)
    ELSE Rat(x.n * y.n, x.d * y.d)

FDiv(x, y) ==
    IF IsNaN(x) \/ IsNaN(y) THEN NaN
    ELSE IF x.k = "inf" /\ y.k = "inf" THEN NaN
    ELSE IF x.k = "inf" THEN (IF Sign(x) * Sign(y) < 0 THEN NegInf ELSE PosInf)
    ELSE IF y.k = "inf" THEN Int2F(0)
    ELSE IF y.n = 0                          \* division by zero
         THEN (IF x.n = 0 THEN NaN           \* 0/0
               ELSE IF x.n > 0 THEN PosInf ELSE NegInf)
    ELSE Rat(x.n * y.d, x.d * y.n)

\* x > y; a comparison with NaN is False.
FGt(x, y) ==
    IF IsNaN(x) \/ IsNaN(y) THEN FALSE
    ELSE IF x.k = "inf" THEN x.n > 0 /\ x # y
    ELSE IF y.k = "inf" THEN y.n < 0
    ELSE x.n * y.d > y.n * x.d

\* A faulty variant of WhereFinite: the non-finite results are left in place.
WhereFiniteKept(x) == x

\* xr.where(np.isfinite(a), a, np.nan), on one sample.
WhereFinite(x) == IF IsFinite(x) THEN x ELSE NaN

-----------------------------------------------------------------------------
(***************************************************************************)
(* Vegetation indices: a grid is a function from pixel positions to        *)
(* samples; xarray arithmetic is element-wise.                             *)
(***************************************************************************)
\* The soil factor of SAVI, L = 0.5.
L == Rat(1, 2)

NDVI_px(n, r) == WhereFinite(FDiv(FSub(n, r), FAdd(n, r)))

EVI_px(n, r, b) ==
    WhereFinite(
        FDiv(FMul(Rat(5, 2), FSub(n, r)),
             FAdd(FSub(FAdd(n, FMul(Int2F(6), r)), FMul(Rat(15, 2), b)),
                  Int2F(1))))

SAVI_px(n, r) ==
    WhereFinite(
        FDiv(FMul(FSub(n, r), FAdd(Int2F(1), L)),
             FAdd(FAdd(n, r), L)))

NDVI_grid(n, r)   == [p \in DOMAIN n |-> NDVI_px(n[p], r[p])]
EVI_grid(n, r, b) == [p \in DOMAIN n |-> EVI_px(n[p], r[p], b[p])]
SAVI_grid(n, r)   == [p \in DOMAIN n |-> SAVI_px(n[p], r[p])]

\* The pixel positions of the grids of SpecIdx.
IdxPixels == {"p0", "p1"}

\* Half-unit sample range: samples are h/2 for h in -NegHalves..PosHalves,
\* or missing.  The range holds a zero denominator of each index:
\* NDVI nir = red = 0; EVI blue = 1, red = 1, nir = 1/2; SAVI nir + red = -1/2.
NegHalves == 1
PosHalves == 2
IdxSamples == {NaN} \cup {Rat(h, 2) : h \in (-NegHalves)..PosHalves}

\* The number of half units of a finite sample of IdxSamples.
Halves(x) == (2 * x.n) \div x.d

IdxInit ==
    /\ blue = NoGrid /\ red = NoGrid /\ nir = NoGrid
    /\ ndvi = NoGrid /\ evi = NoGrid /\ savi = NoGrid

\* Lines 729-752 (multi-month) and 531-555 (one period): the three indices
\* of one period whose four bands were loaded.
ComputeIndices ==
    /\ DOMAIN ndvi = {}
    /\ \E b \in [IdxPixels -> IdxSamples],
          r \in [IdxPixels -> IdxSamples],
          n \in [IdxPixels -> IdxSamples] :
          /\ blue' = b /\ red' = r /\ nir' = n
          /\ ndvi' = NDVI_grid(n, r)
          /\ evi'  = EVI_grid(n, r, b)
          /\ savi' = SAVI_grid(n, r)

\* The next period (or request): the grids are dropped.
DropIndices ==
    /\ DOMAIN ndvi # {}
    /\ blue' = NoGrid /\ red' = NoGrid /\ nir' = NoGrid
    /\ ndvi' = NoGrid /\ evi' = NoGrid /\ savi' = NoGrid

-----------------------------------------------------------------------------
(***************************************************************************)
(* AOI normalisation and clip geometries (both stackers).                  *)
(*                                                                         *)
(* A polygon is an interval [lo, hi] of coordinates on one axis; an AOI    *)
(* file is its declared CRS ("none" when the file declares none) and its   *)
(* features in file order.  Raster pixel centres lie at the EPSG:4326      *)
(* coordinates 0..MaxCoord.                                                *)
(***************************************************************************)
MaxCoord    == 3
MaxFeatures == 2
\* Units of the projected CRS ("EPSG:3857") per unit of EPSG:4326.
UnitsPerDegree == 2

CrsNames == {"none", "EPSG:4326", "EPSG:3857"}
Polygons == {[lo |-> a, hi |-> b] : a \in 0..MaxCoord, b \in 0..MaxCoord}
\* The AOI files with at most n features.
AoiFiles(n) == [crs : CrsNames, features : SeqsUpTo(Polygons, n)]

\* GeoSeries.to_crs("EPSG:4326") on one polygon declared in CRS `from`:
\* the same CRS keeps the coordinates, another CRS transforms them.
to_crs(poly, from) ==
    IF from = "EPSG:4326" THEN poly
    ELSE [lo |-> poly.lo \div UnitsPerDegree, hi |-> poly.hi \div UnitsPerDegree]

\* A faulty variant of set_crs_if_none: an absent CRS is left absent.
set_crs_skipped(aoi) == aoi

\* aoi.crs is None -> set_crs("EPSG:4326", inplace=True): the tag only.
set_crs_if_none(aoi) ==
    IF aoi.crs = "none" THEN [aoi EXCEPT !.crs = "EPSG:4326"] ELSE aoi

\* A faulty variant of to_crs_if_other: the coordinates are transformed and
\* the AOI keeps the CRS it declared.
to_crs_keeps_tag(aoi) ==
    IF aoi.crs # "EPSG:4326"
    THEN [crs |-> aoi.crs,
          features |-> [i \in DOMAIN aoi.features |-> to_crs(aoi.features[i], aoi.crs)]]
    ELSE aoi

\* aoi.crs.to_epsg() != 4326 -> aoi.to_crs("EPSG:4326").
to_crs_if_other(aoi) ==
    IF aoi.crs # "EPSG:4326"
    THEN [crs |-> "EPSG:4326",
          features |-> [i \in DOMAIN aoi.features |-> to_crs(aoi.features[i], aoi.crs)]]
    ELSE aoi

\* Lines 678-682 (multi-month) and 498-502 (one period).
NormalizeAoi(aoi) == to_crs_if_other(set_crs_if_none(aoi))

\* clip_to_aoi of the downloader, lines 105-106: aoi.to_crs("EPSG:4326")
\* whatever the CRS; to_crs of an AOI without a CRS raises ValueError.
WcNormalizeAoi(aoi) ==
    IF aoi.crs = "none"
    THEN [raised |-> TRUE, error |-> "ValueError", aoi |-> aoi]
    ELSE [raised |-> FALSE, error |-> "",
          aoi |-> [crs |-> "EPSG:4326",
                   features |-> [i \in DOMAIN aoi.features |->
                                    to_crs(aoi.features[i], aoi.crs)]]]

\* geometries = [aoi.geometry.iloc[0]]; iloc[0] of no row raises IndexError.
ClipGeometries(aoi) ==
    IF Len(aoi.features) = 0
    THEN [raised |-> TRUE, error |-> "IndexError", geometries |-> <<>>]
    ELSE [raised |-> FALSE, error |-> "", geometries |-> <<aoi.features[1]>>]

\* A pixel centre lies inside a polygon.
Inside(px, poly) == poly.lo <= px /\ px <= poly.hi

\* band.rio.clip(geometries, crs="EPSG:4326"): the pixels kept are those
\* inside at least one geometry of the list.
ClipKeeps(geoms) ==
    {px \in 0..MaxCoord : \E i \in DOMAIN geoms : Inside(px, geoms[i])}

\* A faulty variant of ClipRaises: a clip that keeps nothing gives an array
\* of no pixel.
ClipNeverRaises(geoms) == FALSE

\* band.rio.clip raises (NoDataInBounds) when no pixel of the band is kept.
ClipRaises(geoms) == ClipKeeps(geoms) = {}

\* The AOI the stackers of SpecS1 and SpecMM are called with.
DefaultAoi == [crs |-> "EPSG:4326", features |-> <<[lo |-> 0, hi |-> 1]>>]

AoiInit ==
    /\ aoi_file = [crs |-> "none", features |-> <<>>]
    /\ aoi_norm = [crs |-> "none", features |-> <<>>]
    /\ aoi_geometries = [raised |-> FALSE, error |-> "", geometries |-> <<>>]
    /\ aoi_kept = {}
    /\ aoi_loaded = FALSE
    /\ aoi_wc = [raised |-> FALSE, error |-> "", aoi |-> [crs |-> "none", features |-> <<>>]]

\* gpd.read_file, the normalisation and geometry list that follow it
\* (lines 678-684 multi-month, 498-504 one period) and the clip of a band
\* to that list (line 722, line 525); the same file read by clip_to_aoi of
\* the downloader (lines 105-106).
LoadAoi ==
    /\ ~aoi_loaded
    /\ \E f \in AoiFiles(MaxFeatures) :
        /\ aoi_file' = f
        /\ aoi_norm' = NormalizeAoi(f)
        /\ aoi_geometries' = ClipGeometries(NormalizeAoi(f))
        /\ aoi_kept' = ClipKeeps(ClipGeometries(NormalizeAoi(f)).geometries)
        /\ aoi_loaded' = TRUE
        /\ aoi_wc' = WcNormalizeAoi(f)

\* The call that read the AOI ends; its local variables are gone.
DropAoi ==
    /\ aoi_loaded
    /\ aoi_file' = [crs |-> "none", features |-> <<>>]
    /\ aoi_norm' = [crs |-> "none", features |-> <<>>]
    /\ aoi_geometries' = [raised |-> FALSE, error |-> "", geometries |-> <<>>]
    /\ aoi_kept' = {}
    /\ aoi_loaded' = FALSE
    /\ aoi_wc' = [raised |-> FALSE, error |-> "", aoi |-> [crs |-> "none", features |-> <<>>]]

-----------------------------------------------------------------------------
(***************************************************************************)
(* Band files.  A file name is its stem, a sequence of name tokens, and    *)
(* its extension; a path is a directory (a sequence of components) and a   *)
(* file name.  `"B02" in name` is: some token of the name is "B02" (the    *)
(* tokens are chosen so that no token contains another).                   *)
(***************************************************************************)
\* A faulty variant of bands_to_load: red is loaded before green.
bands_to_load_swapped == <<"B02", "B04", "B03", "B08">>

bands_to_load == <<"B02", "B03", "B04", "B08">>

FileName(stem, ext) == [stem |-> stem, ext |-> ext]
Path(dir, name)     == [dir |-> dir, name |-> name]

\* The file names uploads are drawn from: one per band code, a name that
\* holds two band codes, a .jp2 with no band code, and a band that is not
\* a .jp2.
FileNames ==
    { FileName(<<"T56", "B02">>, "jp2"), FileName(<<"T56", "B03">>, "jp2"),
      FileName(<<"T56", "B04">>, "jp2"), FileName(<<"T56", "B08">>, "jp2"),
      FileName(<<"B02", "B03">>, "jp2"), FileName(<<"T56", "TCI">>, "jp2"),
      FileName(<<"T56", "B04">>, "tif") }

\* file.endswith('.jp2')
EndsWithJp2(path) == path.name.ext = "jp2"

\* band_name in os.path.basename(file)        (multi-month, line 713)
InBasename(band_name, path) == band_name \in Range(path.name.stem)

\* band_name in file                          (one period, line 516)
InPath(band_name, path) ==
    band_name \in (Range(path.dir) \cup Range(path.name.stem))

RECURSIVE FirstMatchAnyExt(_, _, _, _)
\* A faulty variant of FirstMatch: the extension of the file is not looked at.
FirstMatchAnyExt(files, band_name, whole, i) ==
    IF i > Len(files) THEN 0
    ELSE IF (IF whole THEN InPath(band_name, files[i])
             ELSE InBasename(band_name, files[i]))
         THEN i
         ELSE FirstMatchAnyExt(files, band_name, whole, i + 1)

RECURSIVE FirstMatch(_, _, _, _)
\* The inner loop of both stackers: the index of the first file of `files`,
\* from position i on, that matches band_name; 0 when none does (band_file
\* stays None).  whole = TRUE matches on the whole path, FALSE on the
\* basename.
FirstMatch(files, band_name, whole, i) ==
    IF i > Len(files) THEN 0
    ELSE IF /\ (IF whole THEN InPath(band_name, files[i])
                ELSE InBasename(band_name, files[i]))
            /\ EndsWithJp2(files[i])
         THEN i
         ELSE FirstMatch(files, band_name, whole, i + 1)

\* rxr.open_rasterio(band_file, masked=True).squeeze() clipped to the
\* geometries: the array is known by the file it was read from and the
\* geometries it was clipped to.
ClippedBand(path, geoms) == [op |-> "band", src |-> <<path>>, clip |-> geoms]

\* An index computed from arrays: known by the arrays it read, in the order
\* the formula names them.
IndexOf(op, arrays) ==
    [op |-> op, src |-> [i \in DOMAIN arrays |-> arrays[i].src[1]],
     clip |-> arrays[1].clip]

\* What a stacker call produced.
NoResult == [status |-> "none", error |-> "", names |-> <<>>, arrays |-> <<>>]
Raised(error) == [status |-> "raised", error |-> error, names |-> <<>>, arrays |-> <<>>]
Returned(names, arrays) ==
    [status |-> "returned", error |-> "", names |-> names, arrays |-> arrays]

\* xr.concat(arrays, dim="band") of no array raises ValueError; otherwise
\* the stack is written and the call returns.
StackAndSave(names, arrays) ==
    IF Len(arrays) = 0 THEN Raised("ValueError") ELSE Returned(names, arrays)

-----------------------------------------------------------------------------
(***************************************************************************)
(* process_sentinel2_data (sentinel2_web_app.py).                          *)
(***************************************************************************)
RECURSIVE S1LoadBandsPrepend(_, _, _, _)
\* A faulty variant of S1LoadBands: a loaded band goes to the front of the
\* two lists.
S1LoadBandsPrepend(files, geoms, b, acc) ==
    IF b > Len(bands_to_load) THEN acc
    ELSE LET band_name == bands_to_load[b]
             i == FirstMatch(files, band_name, TRUE, 1)
         IN  IF i = 0
             THEN S1LoadBandsPrepend(files, geoms, b + 1, acc)
             ELSE S1LoadBandsPrepend(files, geoms, b + 1,
                      << <<band_name>> \o acc[1],
                         <<ClippedBand(files[i], geoms)>> \o acc[2] >>)

RECURSIVE S1LoadBands(_, _, _, _)
\* Lines 512-528: the spectral bands, in the order of bands_to_load, from
\* position b of bands_to_load on; acc is <<band_names, band_arrays>>.
S1LoadBands(files, geoms, b, acc) ==
    IF b > Len(bands_to_load) THEN acc
    ELSE LET band_name == bands_to_load[b]
             i == FirstMatch(files, band_name, TRUE, 1)
         IN  IF i = 0
             THEN S1LoadBands(files, geoms, b + 1, acc)
             ELSE S1LoadBands(files, geoms, b + 1,
                      << Append(acc[1], band_name),
                         Append(acc[2], ClippedBand(files[i], geoms)) >>)

\* Lines 531-555: with at least four arrays, positions 0..3 are read as
\* blue, green, red, nir and the three indices are appended.
S1AddIndices(acc) ==
    IF Len(acc[2]) >= 4
    THEN LET b == acc[2][1]
             r == acc[2][3]
             n == acc[2][4]
         IN  << acc[1] \o <<"NDVI", "EVI", "SAVI">>,
                acc[2] \o << IndexOf("NDVI", <<n, r>>),
                             IndexOf("EVI", <<n, r, b>>),
                             IndexOf("SAVI", <<n, r>>) >> >>
    ELSE acc

process_sentinel2_data(files, aoi) ==
    LET g == ClipGeometries(NormalizeAoi(aoi))
    IN  IF g.raised THEN Raised(g.error)
        ELSE LET acc == S1AddIndices(
                            S1LoadBands(files, g.geometries, 1, << <<>>, <<>> >>))
             IN  IF Len(acc[2]) > 0 /\ ClipRaises(g.geometries)
                 THEN Raised("NoDataInBounds")
                 ELSE StackAndSave(acc[1], acc[2])

MaxFiles == 4
S1Paths  == {Path(<<"tmp">>, f) : f \in FileNames}

S1Idle ==
    /\ sentinel_files = <<>>
    /\ s1_result = NoResult

\* The files of one period, as paths.
PeriodInit ==
    /\ sentinel_files \in SeqsUpTo(S1Paths, MaxFiles)
    /\ s1_result = NoResult

\* process_sentinel2_data on the files.
S1Call ==
    /\ s1_result.status = "none"
    /\ s1_result' = process_sentinel2_data(sentinel_files, DefaultAoi)
    /\ UNCHANGED sentinel_files

-----------------------------------------------------------------------------
(***************************************************************************)
(* process_multimonth_sentinel2 and POST /process                          *)
(* (sentinel2_multimonth_app.py).                                          *)
(*                                                                         *)
(* A band label f"{band}-{month}" is the pair <<band, month>>.             *)
(* month_files_dict is a Python dict: a sequence of [key, paths] entries   *)
(* in insertion order, with distinct keys.                                 *)
(***************************************************************************)
\* A faulty variant of MonthLoop: the months are taken in the order of the dict.
MonthLoopDictOrder(d) ==
    SelectSeq([i \in DOMAIN d |-> d[i].key],
              LAMBDA k : k \in {"april", "august", "november"})

\* for month_key in ['april', 'august', 'november']        (line 698)
MonthLoop(d) == <<"april", "august", "november">>

\* A faulty variant of Label: the month is left out of the label.
LabelBandOnly(name, month_name) == <<name, "">>

\* f"{band_name}-{month_name}"                              (line 725)
Label(name, month_name) == <<name, month_name>>

\* month_names                                             (lines 691-695)
month_names(month_key) ==
    CASE month_key = "april"    -> "Apr"
      [] month_key = "august"   -> "Aug"
      [] month_key = "november" -> "Nov"

DictKeys(d)    == [i \in DOMAIN d |-> d[i].key]
DictHas(d, k)  == \E i \in DOMAIN d : d[i].key = k
DictGet(d, k)  == d[CHOOSE i \in DOMAIN d : d[i].key = k].paths
\* d[k] = v: an existing key keeps its position, a new one goes last.
DictSet(d, k, v) ==
    IF DictHas(d, k)
    THEN [i \in DOMAIN d |-> IF d[i].key = k THEN [key |-> k, paths |-> v] ELSE d[i]]
    ELSE Append(d, [key |-> k, paths |-> v])

\* month_bands[band_name] = band_clipped
PutBand(month_bands, band_name, a) ==
    [b \in DOMAIN month_bands \cup {band_name} |->
        IF b = band_name THEN a ELSE month_bands[b]]

RECURSIVE MMLoadBands(_, _, _, _, _)
\* Lines 709-726: the spectral bands of one month from position b of
\* bands_to_load on; acc is [names, arrays, month_bands].
MMLoadBands(month_files, month_name, geoms, b, acc) ==
    IF b > Len(bands_to_load) THEN acc
    ELSE LET band_name == bands_to_load[b]
             i == FirstMatch(month_files, band_name, FALSE, 1)
         IN  IF i = 0
             THEN MMLoadBands(month_files, month_name, geoms, b + 1, acc)
             ELSE LET band_clipped == ClippedBand(month_files[i], geoms)
                  IN  MMLoadBands(month_files, month_name, geoms, b + 1,
                          [names |-> Append(acc.names, Label(band_name, month_name)),
                           arrays |-> Append(acc.arrays, band_clipped),
                           month_bands |-> PutBand(acc.month_bands, band_name,
                                                   band_clipped)])

\* Lines 729-752: with four entries in month_bands the three indices of the
\* month are appended.
MMAddIndices(month_name, acc) ==
    IF Cardinality(DOMAIN acc.month_bands) >= 4
    THEN LET b == acc.month_bands["B02"]
             r == acc.month_bands["B04"]
             n == acc.month_bands["B08"]
         IN  [acc EXCEPT
                !.names = @ \o << Label("NDVI", month_name),
                                  Label("EVI", month_name),
                                  Label("SAVI", month_name) >>,
                !.arrays = @ \o << IndexOf("NDVI", <<n, r>>),
                                   IndexOf("EVI", <<n, r, b>>),
                                   IndexOf("SAVI", <<n, r>>) >>]
    ELSE acc

\* One iteration of the month loop, lines 699-752: what the month appends
\* to all_band_names and all_band_arrays.
MMMonth(d, month_key, geoms) ==
    IF ~DictHas(d, month_key)
    THEN [names |-> <<>>, arrays |-> <<>>]
    ELSE LET acc == MMAddIndices(month_names(month_key),
                        MMLoadBands(DictGet(d, month_key), month_names(month_key),
                                    geoms, 1,
                                    [names |-> <<>>, arrays |-> <<>>,
                                     month_bands |-> <<>>]))
         IN  [names |-> acc.names, arrays |-> acc.arrays]

RECURSIVE MMAllMonths(_, _, _, _)
\* The month loop from position m of `order` on.
MMAllMonths(d, geoms, order, m) ==
    IF m > Len(order) THEN [names |-> <<>>, arrays |-> <<>>]
    ELSE LET this == MMMonth(d, order[m], geoms)
             rest == MMAllMonths(d, geoms, order, m + 1)
         IN  [names |-> this.names \o rest.names,
              arrays |-> this.arrays \o rest.arrays]

\* The second value returned is len(all_band_names).
process_multimonth_sentinel2(d, aoi) ==
    LET g == ClipGeometries(NormalizeAoi(aoi))
    IN  IF g.raised THEN Raised(g.error)
        ELSE LET all == MMAllMonths(d, g.geometries, MonthLoop(d), 1)
             IN  IF Len(all.arrays) > 0 /\ ClipRaises(g.geometries)
                 THEN Raised("NoDataInBounds")
                 ELSE StackAndSave(all.names, all.arrays)

\* --- POST /process ------------------------------------------------------
\* The month names a 'months' field can hold: the three the page offers,
\* one it does not, and the empty string of an absent field or a stray comma.
UploadMonths == {"april", "august", "november", "may"}
MonthTokens  == UploadMonths \cup {""}
MaxMonths    == 3

F_B02 == FileName(<<"T56", "B02">>, "jp2")
F_B03 == FileName(<<"T56", "B03">>, "jp2")
F_B04 == FileName(<<"T56", "B04">>, "jp2")
F_B08 == FileName(<<"T56", "B08">>, "jp2")
F_B0203 == FileName(<<"B02", "B03">>, "jp2")
F_TCI == FileName(<<"T56", "TCI">>, "jp2")
F_B04tif == FileName(<<"T56", "B04">>, "tif")

\* The uploads of one month that are tried: none; all four bands, not in
\* band order; three bands; a .jp2 without a band code; a band that is not
\* a .jp2; a name that holds two band codes beside two bands.
MonthUploads ==
    { <<>>,
      <<F_B08, F_B03, F_B02, F_B04>>,
      <<F_B02, F_B03, F_B08>>,
      <<F_TCI>>,
      <<F_B04tif>>,
      <<F_B0203, F_B04, F_B08>> }

\* The uploads of a request: f gives one upload for each month the 'months'
\* field names; the other months have none.
FilesFor(f) == [m \in UploadMonths |-> IF m \in DOMAIN f THEN f[m] ELSE <<>>]

NoUploads == [m \in UploadMonths |-> <<>>]

NoRequest == [months |-> <<>>, geojson |-> FALSE, files |-> NoUploads]

\* A faulty variant of SavedPaths: every uploaded file is saved, whatever
\* its name ends in.
SavedPathsAnyExt(files, month_dir, i) ==
    [j \in 1..(Len(files) - i + 1) |-> Path(month_dir, files[j + i - 1])]

RECURSIVE SavedPaths(_, _, _)
\* Lines 804-809: the paths of the uploaded files of one month whose name
\* ends in .jp2, saved under month_dir, from position i of files on.
SavedPaths(files, month_dir, i) ==
    IF i > Len(files) THEN <<>>
    ELSE IF files[i].ext = "jp2"
         THEN <<Path(month_dir, files[i])>> \o SavedPaths(files, month_dir, i + 1)
         ELSE SavedPaths(files, month_dir, i + 1)

RECURSIVE CollectMonths(_, _, _, _)
\* Lines 790-812: month_files_dict, from position i of selected_months on.
CollectMonths(selected_months, files, i, d) ==
    IF i > Len(selected_months) THEN d
    ELSE LET month == selected_months[i]
         IN  IF month = "" THEN CollectMonths(selected_months, files, i + 1, d)
             ELSE IF Len(files[month]) = 0
                  THEN CollectMonths(selected_months, files, i + 1, d)
             ELSE LET month_paths == SavedPaths(files[month], <<"tmp", month>>, 1)
                  IN  IF Len(month_paths) > 0
                      THEN CollectMonths(selected_months, files, i + 1,
                                         DictSet(d, month, month_paths))
                      ELSE CollectMonths(selected_months, files, i + 1, d)

NoResponse == [status |-> 0, body |-> "none", error |-> "",
               months_in_name |-> 0, bands_in_name |-> 0]
\* A faulty variant of JsonError: the status is left out of the return, so
\* the error goes out with 200.
JsonErrorNoStatus(status, error) ==
    [status |-> 200, body |-> "json", error |-> error,
     months_in_name |-> 0, bands_in_name |-> 0]
\* jsonify({'error': error}), status
JsonError(status, error) ==
    [status |-> status, body |-> "json", error |-> error,
     months_in_name |-> 0, bands_in_name |-> 0]
\* send_file(result_file, download_name=f'Sentinel2_{n}Month_{k}Band_Stack_...')
SendFile(n_months, num_bands) ==
    [status |-> 200, body |-> "file", error |-> "",
     months_in_name |-> n_months, bands_in_name |-> num_bands]

\* The handler of POST /process, lines 771-839, as a function of the
\* request and of the AOI its GeoJSON part holds: <<month_files_dict,
\* result of the stacker, response>>.
ProcessWithAoi(req, aoi) ==
    IF ~req.geojson
    THEN << <<>>, NoResult, JsonError(400, "Missing GeoJSON file") >>
    ELSE LET d == CollectMonths(req.months, req.files, 1, <<>>)
         IN  IF Len(d) = 0
             THEN << d, NoResult, JsonError(400, "No valid Sentinel-2 files uploaded") >>
             ELSE LET res == process_multimonth_sentinel2(d, aoi)
                  IN  IF res.status = "raised"
                      THEN << d, res, JsonError(500, res.error) >>
                      ELSE << d, res, SendFile(Len(d), Len(res.names)) >>

\* The handler on a request whose GeoJSON part holds DefaultAoi.
process(req) == ProcessWithAoi(req, DefaultAoi)

MMInit ==
    /\ mm_request = NoRequest
    /\ month_files_dict = <<>>
    /\ mm_result = NoResult
    /\ mm_response = NoResponse

\* The answer to request req.
MMAnswer(req) ==
    \E out \in {process(req)} :
        /\ mm_request' = req
        /\ month_files_dict' = out[1]
        /\ mm_result' = out[2]
        /\ mm_response' = out[3]

\* One POST /process, answered: a request with a GeoJSON part, a 'months'
\* field of at most MaxMonths names and an upload for each month it names.
MMProcess ==
    /\ mm_response.status = 0
    /\ \E ms \in SeqsUpTo(MonthTokens, MaxMonths) :
        \E f \in [Range(ms) \cap UploadMonths -> MonthUploads] :
            MMAnswer([months |-> ms, geojson |-> TRUE, files |-> FilesFor(f)])

\* One POST /process without a GeoJSON part, answered.
MMProcessNoGeojson ==
    /\ mm_response.status = 0
    /\ \E ms \in SeqsUpTo(MonthTokens, MaxMonths) :
            MMAnswer([months |-> ms, geojson |-> FALSE, files |-> NoUploads])

\* The 'months' fields and the uploads of the requests of MMProcessAnyMonth.
StrayMonths == { <<>>, <<"august">>, <<"may", "april">> }
StrayUploads == { <<>>, <<F_B08, F_B03, F_B02, F_B04>>, <<F_B04tif>> }

\* One POST /process, answered: a request with a GeoJSON part whose
\* '<month>_files' parts are there for any month, named in 'months' or not.
MMProcessAnyMonth ==
    /\ mm_response.status = 0
    /\ \E ms \in StrayMonths : \E f \in [UploadMonths -> StrayUploads] :
            MMAnswer([months |-> ms, geojson |-> TRUE, files |-> f])

\* The response is sent and the handler's locals are gone.
MMDone ==
    /\ mm_response.status # 0
    /\ mm_request' = NoRequest
    /\ month_files_dict' = <<>>
    /\ mm_result' = NoResult
    /\ mm_response' = NoResponse

\* process_multimonth_sentinel2 called with the files of SpecPeriod as the
\* only period, under one of the three month keys.
MM1Call ==
    /\ mm_result.status = "none"
    /\ \E month_key \in {"april", "august", "november"} :
        \E d \in {<<[key |-> month_key, paths |-> sentinel_files]>>} :
            /\ month_files_dict' = d
            /\ mm_result' = process_multimonth_sentinel2(d, DefaultAoi)
    /\ UNCHANGED <<mm_request, mm_response>>

\* The files of SpecPeriod as the files of month k of a request.
MonthPaths(k) ==
    [i \in DOMAIN sentinel_files |-> Path(<<"tmp", k>>, sentinel_files[i].name)]

\* process_multimonth_sentinel2 called with the files of SpecPeriod as the
\* files of each of the three periods, the dict filled in another order than
\* the calendar's.
MM3Call ==
    /\ mm_result.status = "none"
    /\ \E d \in {<< [key |-> "november", paths |-> MonthPaths("november")],
                     [key |-> "april", paths |-> MonthPaths("april")],
                     [key |-> "august", paths |-> MonthPaths("august")] >>} :
            /\ month_files_dict' = d
            /\ mm_result' = process_multimonth_sentinel2(d, DefaultAoi)
    /\ UNCHANGED <<mm_request, mm_response>>

-----------------------------------------------------------------------------
(***************************************************************************)
(* predict_green_spaces (greenspace_predictor_app_FINAL.py).               *)
(*                                                                         *)
(* X_stack is [n_bands, height, width, data] with data[b][r][c] the sample *)
(* of band b at row r, column c (all from 1).  A flat pixel index p in     *)
(* 1..height*width is row-major, as numpy's reshape.                       *)
(***************************************************************************)
\* The stacks tried hold at most MaxCells samples.
MaxCells    == 6
PredSamples == {NaN, Int2F(0), Int2F(1)}

\* The shapes <<n_bands, height, width>> of at most n samples.
Shapes(n) ==
    {sh \in (1..n) \X (1..n) \X (1..n) : sh[1] * sh[2] * sh[3] <= n}

\* The stacks of at most n samples.
Stacks(n) ==
    UNION { { [n_bands |-> sh[1], height |-> sh[2], width |-> sh[3], data |-> dt] :
                dt \in [1..sh[1] -> [1..sh[2] -> [1..sh[3] -> PredSamples]]] } :
            sh \in Shapes(n) }

NoStack == [n_bands |-> 0, height |-> 0, width |-> 0, data |-> <<>>]

\* TRAINED_MODEL = None, the unfitted RandomForestClassifier that
\* load_or_create_model installs, or a fitted classifier with labels 0 and
\* 1: it was fitted on n_features columns and labels a row by one of them.
NoModel   == [kind |-> "none", n_features |-> 0, band |-> 0]
DemoModel == [kind |-> "demo", n_features |-> 0, band |-> 0]
MaxFeat   == 2
Classifiers ==
    {c \in [kind : {"trained"}, n_features : 1..MaxFeat, band : 1..MaxFeat] :
        c.band <= c.n_features}

\* The label a fitted classifier gives one row.
ClassifierLabel(model, row) ==
    IF FGt(row[model.band], Rat(1, 2)) THEN 1 ELSE 0

NPixels(X) == X.height * X.width

\* X = X_stack.reshape(n_bands, -1).T: row p of X.
RowOf(X, p) ==
    [b \in 1..X.n_bands |->
        X.data[b][((p - 1) \div X.width) + 1][((p - 1) % X.width) + 1]]

\* A faulty variant of valid_mask: only the first band is looked at.
valid_mask_first_band(X) ==
    [p \in 1..NPixels(X) |-> ~IsNaN(RowOf(X, p)[1])]

\* valid_mask = ~np.isnan(X).any(axis=1)
valid_mask(X) ==
    [p \in 1..NPixels(X) |-> \A b \in 1..X.n_bands : ~IsNaN(RowOf(X, p)[b])]

RECURSIVE MaskedPositions(_, _)
\* The positions a boolean mask selects, ascending, from position p on.
MaskedPositions(mask, p) ==
    IF p > Len(mask) THEN <<>>
    ELSE IF mask[p] THEN <<p>> \o MaskedPositions(mask, p + 1)
         ELSE MaskedPositions(mask, p + 1)

\* X_valid = X[valid_mask]
X_valid(X) ==
    LET at == MaskedPositions(valid_mask(X), 1)
    IN  [k \in DOMAIN at |-> RowOf(X, at[k])]

Min(a, b) == IF a < b THEN a ELSE b

\* Lines 683-684: the 0-based columns read as NDVI by the demo rule.
ndvi_indices(n_bands) ==
    LET first == IF n_bands >= 21 THEN <<4, 11, 18>> ELSE <<Min(4, n_bands - 1)>>
    IN  SelectSeq(first, LAMBDA i : i < n_bands)

RECURSIVE FSum(_, _)
FSum(xs, i) == IF i > Len(xs) THEN Int2F(0) ELSE FAdd(xs[i], FSum(xs, i + 1))

\* Lines 687-688 on one row: (mean of the NDVI columns > 0.3).astype(int).
\* With n_bands >= 1 ndvi_indices is never empty, so line 691 is never run.
DemoLabel(row) ==
    LET idx  == ndvi_indices(Len(row))
        mean == FDiv(FSum([k \in DOMAIN idx |-> row[idx[k] + 1]], 1),
                     Int2F(Len(idx)))
    IN  IF FGt(mean, Rat(3, 10)) THEN 1 ELSE 0

\* Lines 675-691: y_pred_valid, or the exception the classifier raises
\* (not fitted; no row; a column count it was not fitted on).
PredictValid(model, rows, n_bands) ==
    IF model.kind = "none"
    THEN [raised |-> FALSE, error |-> "", y |-> [k \in DOMAIN rows |-> DemoLabel(rows[k])]]
    ELSE IF model.kind = "demo"
    THEN [raised |-> TRUE, error |-> "NotFittedError", y |-> <<>>]
    ELSE IF Len(rows) = 0 \/ n_bands # model.n_features
    THEN [raised |-> TRUE, error |-> "ValueError", y |-> <<>>]
    ELSE [raised |-> FALSE, error |-> "",
          y |-> [k \in DOMAIN rows |-> ClassifierLabel(model, rows[k])]]

\* The number of selected positions up to p.
Rank(mask, p) == Cardinality({q \in 1..p : mask[q]})

\* A faulty variant of FillPrediction: the map is prefilled with -1.
FillPredictionMinusOne(mask, y_pred_valid) ==
    [p \in DOMAIN mask |->
        IF mask[p] THEN Int2F(y_pred_valid[Rank(mask, p)]) ELSE Int2F(-1)]

\* y_pred = np.full(height * width, np.nan); y_pred[valid_mask] = y_pred_valid
FillPrediction(mask, y_pred_valid) ==
    [p \in DOMAIN mask |->
        IF mask[p] THEN Int2F(y_pred_valid[Rank(mask, p)]) ELSE NaN]

\* y_pred.reshape(height, width)
Reshape2D(flat, height, width) ==
    [r \in 1..height |-> [c \in 1..width |-> flat[(r - 1) * width + c]]]

MapCells(m) == {<<r, c>> : r \in DOMAIN m, c \in (IF Len(m) = 0 THEN {} ELSE DOMAIN m[1])}

\* A faulty variant of Statistics: total_pixels counts every pixel of the map.
StatisticsAllPixels(y_pred_map, X) ==
    LET green_pixels == Cardinality({rc \in MapCells(y_pred_map) :
                                        y_pred_map[rc[1]][rc[2]] = Int2F(1)})
        total == X.height * X.width
    IN  [green_pixels |-> green_pixels,
         total_pixels |-> total,
         green_percentage |->
            IF total > 0
            THEN FMul(FDiv(Int2F(green_pixels), Int2F(total)), Int2F(100))
            ELSE Int2F(0),
         height |-> X.height, width |-> X.width, n_bands |-> X.n_bands]

\* Lines 699-709.
Statistics(y_pred_map, X) ==
    LET green_pixels == Cardinality({rc \in MapCells(y_pred_map) :
                                        y_pred_map[rc[1]][rc[2]] = Int2F(1)})
        total_valid_pixels == Cardinality({rc \in MapCells(y_pred_map) :
                                        ~IsNaN(y_pred_map[rc[1]][rc[2]])})
    IN  [green_pixels |-> green_pixels,
         total_pixels |-> total_valid_pixels,
         green_percentage |->
            IF total_valid_pixels > 0
            THEN FMul(FDiv(Int2F(green_pixels), Int2F(total_valid_pixels)), Int2F(100))
            ELSE Int2F(0),
         height |-> X.height, width |-> X.width, n_bands |-> X.n_bands]

NoStats == [green_pixels |-> 0, total_pixels |-> 0, green_percentage |-> Int2F(0),
            height |-> 0, width |-> 0, n_bands |-> 0]
NoPrediction ==
    [status |-> "none", error |-> "", passed |-> <<>>, y_pred_map |-> <<>>,
     stats |-> NoStats]
PredRaised(error) == [NoPrediction EXCEPT !.status = "raised", !.error = error]

\* Lines 655-736; `passed` keeps the positions of the rows of X_valid.
predict_green_spaces(X, model) ==
    LET mask == valid_mask(X)
        y    == PredictValid(model, X_valid(X), X.n_bands)
    IN  IF y.raised THEN PredRaised(y.error)
        ELSE LET y_pred_map == Reshape2D(FillPrediction(mask, y.y), X.height, X.width)
             IN  [status |-> "returned", error |-> "",
                  passed |-> MaskedPositions(mask, 1),
                  y_pred_map |-> y_pred_map,
                  stats |-> Statistics(y_pred_map, X)]

PredInit ==
    /\ model_file \in {NoModel} \cup Classifiers
    /\ TRAINED_MODEL = NoModel
    /\ X_stack = NoStack
    /\ pred_result = NoPrediction

\* load_or_create_model, lines 603-646: run at startup and by every GET /.
LoadOrCreateModel ==
    /\ pred_result.status = "none"
    /\ TRAINED_MODEL' = (IF model_file.kind = "trained" THEN model_file ELSE DemoModel)
    /\ UNCHANGED <<model_file, X_stack, pred_result>>

\* predict_green_spaces on an uploaded stack.
Predict ==
    /\ pred_result.status = "none"
    /\ \E X \in Stacks(MaxCells) :
        /\ X_stack' = X
        /\ pred_result' = predict_green_spaces(X, TRAINED_MODEL)
    /\ UNCHANGED <<model_file, TRAINED_MODEL>>

\* The response is sent; the next request can be handled.
PredDone ==
    /\ pred_result.status # "none"
    /\ X_stack' = NoStack
    /\ pred_result' = NoPrediction
    /\ UNCHANGED <<model_file, TRAINED_MODEL>>

-----------------------------------------------------------------------------
(***************************************************************************)
(* The WorldCover downloader (download_worldcover_sydney.py), lines        *)
(* 244-257.  A tile is known by its position in WORLDCOVER_TILES; the path *)
(* of tile i is i and None is 0.                                           *)
(***************************************************************************)
MaxTiles == 3

\* What OUTPUT_DIR holds of a tile: nothing, the whole file, or the part of
\* it an interrupted transfer wrote.
DiskStates == {"absent", "complete", "partial"}

\* What the HTTP transfer of a tile does: it succeeds; requests.get or
\* raise_for_status raises before the file is opened; the stream raises
\* after the file was opened.  All three exceptions are RequestException.
Transfers == {"ok", "http_error", "stream_error"}

\* download_worldcover_tile, lines 65-95: <<the path returned, what the disk
\* then holds of the tile>>.
download_worldcover_tile(tile, on_disk, transfer) ==
    IF on_disk # "absent" THEN <<tile, on_disk>>
    ELSE IF transfer = "ok" THEN <<tile, "complete">>
    ELSE IF transfer = "http_error" THEN <<0, "absent">>
    ELSE <<0, "partial">>

\* A faulty variant of AppendIfPath: the result of every call is appended.
AppendAlways(tiles, tile_path) == Append(tiles, tile_path)

\* Lines 247-248: if tile_path: downloaded_tiles.append(tile_path)
AppendIfPath(tiles, tile_path) ==
    IF tile_path # 0 THEN Append(tiles, tile_path) ELSE tiles

NoCall == [calls |-> 0, path |-> 0]

\* Where clip_to_aoi fails, if it does: reading the AOI (105-106); opening
\* or merging the tiles (115-122); in the middle of writing the merged file
\* (130-140); opening the clip source or masking it, e.g. an AOI that does
\* not overlap the tiles (149-154); writing the output (167-168).
ClipFaults == {"none", "aoi", "merge", "temp_write", "mask", "save"}

NoClip == [result |-> "none", merged |-> FALSE]

\* if len(worldcover_tiles) > 1                                  (line 111)
MergeNeeded(worldcover_tiles) == Len(worldcover_tiles) > 1

\* clip_to_aoi, lines 98-177: how the call ends, whether it wrote the
\* merged file, and whether '_temp_merged.tif' exists when it ends (temp is
\* whether it existed before).  The file is removed at lines 171-172 only,
\* which an exception does not reach.
clip_to_aoi(worldcover_tiles, temp, fault) ==
    IF fault = "aoi"
    THEN [result |-> "raised", merged |-> FALSE, temp |-> temp]
    ELSE IF MergeNeeded(worldcover_tiles)
    THEN IF fault = "merge"
         THEN [result |-> "raised", merged |-> FALSE, temp |-> temp]
         ELSE IF fault \in {"temp_write", "mask", "save"}
         THEN [result |-> "raised", merged |-> TRUE, temp |-> TRUE]
         ELSE [result |-> "returned", merged |-> TRUE, temp |-> FALSE]
    ELSE IF fault \in {"merge", "temp_write", "mask", "save"}
         THEN [result |-> "raised", merged |-> FALSE, temp |-> temp]
         ELSE [result |-> "returned", merged |-> FALSE, temp |-> temp]

DlIdle ==
    /\ WORLDCOVER_TILES = <<>>
    /\ dl_disk = <<>>
    /\ dl_pos = 0
    /\ dl_log = <<>>
    /\ downloaded_tiles = <<>>
    /\ dl_phase = "none"
    /\ clip_tiles = <<>>
    /\ clip_outcome = NoClip
    /\ temp_merged = FALSE

\* The start of a run: the tile list and what earlier runs left on disk.
DlInit ==
    /\ \E n \in 1..MaxTiles :
        /\ WORLDCOVER_TILES = [i \in 1..n |-> i]
        /\ dl_disk \in [1..n -> DiskStates]
        /\ dl_log = [i \in 1..n |-> NoCall]
    /\ dl_pos = 1
    /\ downloaded_tiles = <<>>
    /\ dl_phase = "loop"
    /\ clip_tiles = <<>>
    /\ clip_outcome = NoClip
    /\ temp_merged = FALSE

\* One iteration of the loop at line 245.
DownloadTile ==
    /\ dl_phase = "loop"
    /\ dl_pos <= Len(WORLDCOVER_TILES)
    /\ \E transfer \in Transfers :
        \E out \in {download_worldcover_tile(WORLDCOVER_TILES[dl_pos],
                                              dl_disk[dl_pos], transfer)} :
            /\ dl_disk' = [dl_disk EXCEPT ![dl_pos] = out[2]]
            /\ dl_log' = [dl_log EXCEPT ![dl_pos] =
                              [calls |-> @.calls + 1, path |-> out[1]]]
            /\ downloaded_tiles' = AppendIfPath(downloaded_tiles, out[1])
    /\ dl_pos' = dl_pos + 1
    /\ UNCHANGED <<WORLDCOVER_TILES, dl_phase, clip_tiles, clip_outcome, temp_merged>>

\* Lines 250-252: no tile gave a path; exit(1).
ExitNoTiles ==
    /\ dl_phase = "loop"
    /\ dl_pos > Len(WORLDCOVER_TILES)
    /\ Len(downloaded_tiles) = 0
    /\ dl_phase' = "exited"
    /\ UNCHANGED <<WORLDCOVER_TILES, dl_disk, dl_pos, dl_log, downloaded_tiles,
                   clip_tiles, clip_outcome, temp_merged>>

\* Line 257: clip_to_aoi(downloaded_tiles, AOI_FILE, OUTPUT_FILE).
ClipTiles ==
    /\ dl_phase = "loop"
    /\ dl_pos > Len(WORLDCOVER_TILES)
    /\ Len(downloaded_tiles) > 0
    /\ clip_tiles' = downloaded_tiles
    /\ dl_phase' = "clipped"
    /\ \E fault \in ClipFaults :
        \E out \in {clip_to_aoi(downloaded_tiles, temp_merged, fault)} :
            /\ clip_outcome' = [result |-> out.result, merged |-> out.merged]
            /\ temp_merged' = out.temp
    /\ UNCHANGED <<WORLDCOVER_TILES, dl_disk, dl_pos, dl_log, downloaded_tiles>>

\* The script is run again: OUTPUT_DIR holds what the run before left.
Rerun ==
    /\ dl_phase \in {"exited", "clipped"}
    /\ dl_pos' = 1
    /\ dl_log' = [i \in DOMAIN WORLDCOVER_TILES |-> NoCall]
    /\ downloaded_tiles' = <<>>
    /\ dl_phase' = "loop"
    /\ clip_tiles' = <<>>
    /\ clip_outcome' = NoClip
    /\ UNCHANGED <<WORLDCOVER_TILES, dl_disk, temp_merged>>

-----------------------------------------------------------------------------
(***************************************************************************)
(* The three web scripts as servers.  Flask's app.run serves each request  *)
(* on a thread of its own; Slots are the threads.  A request is known by   *)
(* the number it got; a file or a directory is known by the request that   *)
(* made it.  A stacker's handler touches nothing shared, so it is one      *)
(* step; predict_green_spaces writes the two module globals at lines 723   *)
(* and 727, and is cut there.                                              *)
(***************************************************************************)
MaxRequests == 2
Slots == {1, 2}

\* The stacks POSTed to /predict: one band of two valid pixels; one band
\* with a missing pixel; one band with no valid pixel; two bands of one
\* valid pixel.
SvcStacks ==
    { [n_bands |-> 1, height |-> 1, width |-> 2,
       data |-> << << <<Int2F(1), Int2F(0)>> >> >>],
      [n_bands |-> 1, height |-> 1, width |-> 2,
       data |-> << << <<NaN, Int2F(1)>> >> >>],
      [n_bands |-> 1, height |-> 1, width |-> 1,
       data |-> << << <<NaN>> >> >>],
      [n_bands |-> 2, height |-> 1, width |-> 1,
       data |-> << << <<Int2F(1)>> >>, << <<Int2F(0)>> >> >>] }

\* The fitted classifiers the predictor finds at MODEL_PATH: one fitted on
\* one feature, one fitted on two.
SvcModels ==
    { [kind |-> "trained", n_features |-> 1, band |-> 1],
      [kind |-> "trained", n_features |-> 2, band |-> 2] }

NoAoi == [crs |-> "none", features |-> <<>>]

\* The AOIs a GeoJSON part holds: one polygon; no feature; one empty
\* polygon; an empty polygon before a polygon, without CRS; one polygon in
\* another CRS.
WebAois ==
    { DefaultAoi,
      [crs |-> "EPSG:4326", features |-> <<>>],
      [crs |-> "EPSG:4326", features |-> <<[lo |-> 2, hi |-> 1]>>],
      [crs |-> "none", features |-> <<[lo |-> 1, hi |-> 0], [lo |-> 0, hi |-> 1]>>],
      [crs |-> "EPSG:3857", features |-> <<[lo |-> 2, hi |-> 3]>>] }

\* The 'geojson' part of a request: no such part; a part without a file
\* name (a form submitted with no file chosen); a file.
GeojsonParts == {"missing", "unnamed", "present"}

\* The 'sentinel_files' parts of a request to the one-period stacker.
SingleUploads ==
    { <<>>, <<F_B02, F_B03, F_B04, F_B08>>, <<F_B03>>, <<F_TCI>>, <<F_B04tif>> }

\* The 'months' fields and month uploads of a request to the multi-month
\* stacker.
WebMonths == { <<>>, <<"april">>, <<"august", "april">> }
WebMonthUploads == { <<>>, <<F_B08, F_B03, F_B02, F_B04>>, <<F_TCI>>, <<F_B04tif>> }

NoWebRequest == [geojson |-> "missing", files |-> FALSE, aoi |-> NoAoi]
NoWebResponse == [status |-> 0, body |-> "none", raster |-> {}]
\* jsonify({'error': ...}), status
WebJsonError(status) == [status |-> status, body |-> "json_error", raster |-> {}]
\* send_file of a raster that holds the pixels `raster`
WebFile(raster) == [status |-> 200, body |-> "file", raster |-> raster]
\* jsonify({"stats": ..., "visualization": ...})
WebJsonResult == [status |-> 200, body |-> "json_result", raster |-> {}]

\* POST /process of sentinel2_web_app.py, lines 573-614: the response and
\* whether the handler made (and, in its finally clause, removed) a
\* temporary directory.  request.files['geojson'] of a request without
\* that part raises a KeyError, which the except clause answers with 500.
process_single(files, geojson, aoi) ==
    IF geojson = "missing"
    THEN [resp |-> WebJsonError(500), made |-> FALSE, error |-> "KeyError"]
    ELSE IF Len(files) = 0 \/ geojson = "unnamed"
    THEN [resp |-> WebJsonError(400), made |-> FALSE, error |-> ""]
    ELSE LET res == process_sentinel2_data(SavedPaths(files, <<"tmp">>, 1), aoi)
         IN  IF res.status = "raised"
             THEN [resp |-> WebJsonError(500), made |-> TRUE, error |-> res.error]
             ELSE [resp |-> WebFile(ClipKeeps(res.arrays[1].clip)), made |-> TRUE,
                   error |-> ""]

\* POST /process of sentinel2_multimonth_app.py, lines 770-839: the
\* response and whether the handler made (and removed) a temporary
\* directory (line 783, after the GeoJSON test).
process_multi(months, files, geojson, aoi) ==
    LET out == ProcessWithAoi([months |-> months, geojson |-> geojson = "present",
                               files |-> files], aoi)
    IN  [resp |-> IF out[3].body = "file"
                  THEN [status |-> out[3].status, body |-> "file",
                        raster |-> ClipKeeps(out[2].arrays[1].clip)]
                  ELSE [status |-> out[3].status, body |-> "json_error",
                        raster |-> {}],
         made |-> geojson = "present",
         error |-> out[2].error]

\* What a handler meets in its files and its disk: nothing; a GeoJSON that
\* gpd.read_file cannot read; a band file (or stack) that cannot be opened
\* as a raster; an output that cannot be written.
WebFaults == {"none", "bad_vector", "bad_raster", "write"}

\* A faulty variant of ExceptClause: the exception leaves the handler and
\* Flask answers with its own error page.
NoExceptClause(error) ==
    [resp |-> [status |-> 500, body |-> "html_error", raster |-> {}],
     made |-> TRUE, error |-> error]

\* except Exception as e: return jsonify({'error': str(e)}), 500
\* (one period 609-610, multi-month 832-835, predictor 820-823), for an
\* exception raised after mkdtemp().
ExceptClause(error) ==
    [resp |-> WebJsonError(500), made |-> TRUE, error |-> error]

\* Some band of bands_to_load has a file among the uploads.
SingleLoadsBand(files) ==
    Len(S1LoadBands(SavedPaths(files, <<"tmp">>, 1), <<>>, 1, << <<>>, <<>> >>)[2]) > 0
MultiLoadsBand(months, files) ==
    Len(MMAllMonths(CollectMonths(months, files, 1, <<>>), <<>>,
                    <<"april", "august", "november">>, 1).arrays) > 0

\* The handler of a stacker under a fault: `out` is what it does without
\* one.  gpd.read_file is the first statement of the stacker function;
\* open_rasterio is reached when the AOI has a first geometry and a band
\* has a file; to_raster is reached when the stack was built.
WithFault(out, fault, loads_band) ==
    IF ~out.made \/ fault = "none" THEN out
    ELSE IF fault = "bad_vector" THEN ExceptClause("DriverError")
    ELSE IF fault = "bad_raster"
    THEN (IF loads_band /\ out.error # "IndexError"
          THEN ExceptClause("RasterioIOError") ELSE out)
    ELSE IF out.resp.body = "file" THEN ExceptClause("WriteError") ELSE out

IdleSlot == [id |-> 0, pc |-> "idle", req |-> NoWebRequest, resp |-> NoWebResponse]
NoDownload == [client |-> 0, kind |-> "none", status |-> 0, served |-> 0]
Dir(id, kind) == [req |-> id, kind |-> kind]

\* Another thread is handling a request.
OtherBusy(s) == \E t \in Slots \ {s} : slots[t].pc # "idle"

WebIdle ==
    /\ app = "none"
    /\ next_id = 1
    /\ slots = [s \in Slots |-> IdleSlot]
    /\ tmp_dirs = {}
    /\ tmp_made = {}
    /\ latest_prediction = 0
    /\ latest_visualization = 0
    /\ finished = {}
    /\ ok_sent = {}
    /\ last_ok = 0
    /\ overlapped = FALSE
    /\ last_download = NoDownload
    /\ handler_error = [s \in Slots |-> ""]

\* One of the three scripts is imported; the predictor finds a fitted
\* classifier at MODEL_PATH or none.
WebInit ==
    /\ app \in {"single", "multi", "predictor"}
    /\ next_id = 1
    /\ slots = [s \in Slots |-> IdleSlot]
    /\ tmp_dirs = {}
    /\ tmp_made = {}
    /\ latest_prediction = 0
    /\ latest_visualization = 0
    /\ finished = {}
    /\ ok_sent = {}
    /\ last_ok = 0
    /\ overlapped = FALSE
    /\ last_download = NoDownload
    /\ handler_error = [s \in Slots |-> ""]
    /\ model_file \in (IF app = "predictor" THEN {NoModel} \cup SvcModels
                       ELSE {NoModel})
    /\ TRAINED_MODEL = NoModel
    /\ X_stack = NoStack
    /\ pred_result = NoPrediction

\* load_or_create_model at the start of the predictor and on every GET /.
WebLoadModel ==
    /\ app = "predictor"
    /\ LoadOrCreateModel
    /\ UNCHANGED webVars

\* A faulty variant of Handled: the handler ends without a return value.
HandledNothing(s, req, resp, made) ==
    /\ slots' = [slots EXCEPT ![s] = [id |-> next_id, pc |-> "no_return",
                                      req |-> req, resp |-> NoWebResponse]]
    /\ tmp_made' = tmp_made \cup made
    /\ next_id' = next_id + 1
    /\ overlapped' = (overlapped \/ OtherBusy(s))

\* A handler that runs from the request to its return on thread s.
Handled(s, req, resp, made) ==
    /\ slots' = [slots EXCEPT ![s] = [id |-> next_id, pc |-> "responded",
                                      req |-> req, resp |-> resp]]
    /\ tmp_made' = tmp_made \cup made
    /\ next_id' = next_id + 1
    /\ overlapped' = (overlapped \/ OtherBusy(s))

\* POST /process of the one-period stacker, handler and finally clause: the
\* directory it made is gone when the handler returns.
SingleProcess(s) ==
    /\ app = "single"
    /\ slots[s].pc = "idle"
    /\ next_id <= MaxRequests
    /\ \E files \in SingleUploads : \E g \in GeojsonParts :
        \E aoi \in (IF g = "present" THEN WebAois ELSE {NoAoi}) :
         \E fault \in WebFaults :
          \E out \in {WithFault(process_single(files, g, aoi), fault,
                                 SingleLoadsBand(files))} :
            /\ Handled(s, [geojson |-> g, files |-> Len(files) > 0, aoi |-> aoi],
                       out.resp,
                       IF out.made THEN {Dir(next_id, "work")} ELSE {})
            /\ handler_error' = [handler_error EXCEPT ![s] = out.error]
    /\ UNCHANGED <<app, tmp_dirs, latest_prediction, latest_visualization,
                   finished, ok_sent, last_ok, last_download>>

\* POST /process of the multi-month stacker, handler and finally clause.
MultiProcess(s) ==
    /\ app = "multi"
    /\ slots[s].pc = "idle"
    /\ next_id <= MaxRequests
    /\ \E ms \in WebMonths : \E g \in GeojsonParts :
        \E f \in [Range(ms) -> WebMonthUploads] :
          \E aoi \in (IF g = "present" THEN WebAois ELSE {NoAoi}) :
           \E fault \in WebFaults :
            \E out \in {WithFault(process_multi(ms, FilesFor(f), g, aoi), fault,
                                   MultiLoadsBand(ms, FilesFor(f)))} :
              /\ Handled(s, [geojson |-> g,
                             files |-> \E m \in Range(ms) : Len(f[m]) > 0,
                             aoi |-> aoi],
                         out.resp,
                         IF out.made THEN {Dir(next_id, "work")} ELSE {})
              /\ handler_error' = [handler_error EXCEPT ![s] = out.error]
    /\ UNCHANGED <<app, tmp_dirs, latest_prediction, latest_visualization,
                   finished, ok_sent, last_ok, last_download>>

\* POST /predict up to line 723 of predict_green_spaces: the test of the
\* part (808), the upload saved in a new directory (810-813), the
\* prediction (655-709), the raster written in a second directory and
\* latest_prediction set to it (716-723).  An exception ends the handler
\* with 500 (820-823).  No directory is removed.
PredictStart(s) ==
    /\ app = "predictor"
    /\ slots[s].pc = "idle"
    /\ next_id <= MaxRequests
    /\ \/ /\ Handled(s, NoWebRequest, WebJsonError(400), {})
          /\ tmp_dirs' = tmp_dirs
          /\ latest_prediction' = latest_prediction
          /\ handler_error' = [handler_error EXCEPT ![s] = ""]
       \/ \* rasterio.open of the upload raises (line 656)
          /\ Handled(s, [NoWebRequest EXCEPT !.files = TRUE],
                     ExceptClause("RasterioIOError").resp, {Dir(next_id, "upload")})
          /\ tmp_dirs' = tmp_dirs \cup {Dir(next_id, "upload")}
          /\ latest_prediction' = latest_prediction
          /\ handler_error' = [handler_error EXCEPT ![s] = "RasterioIOError"]
       \/ \E X \in SvcStacks :
           \E res \in {predict_green_spaces(X, TRAINED_MODEL)} :
             IF res.status = "raised"
             THEN /\ Handled(s, [NoWebRequest EXCEPT !.files = TRUE],
                             WebJsonError(500), {Dir(next_id, "upload")})
                  /\ tmp_dirs' = tmp_dirs \cup {Dir(next_id, "upload")}
                  /\ latest_prediction' = latest_prediction
                  /\ handler_error' = [handler_error EXCEPT ![s] = res.error]
             ELSE \/ /\ handler_error' = [handler_error EXCEPT ![s] = ""]
                     /\ slots' = [slots EXCEPT ![s] =
                                    [id |-> next_id, pc |-> "at_viz",
                                     req |-> [NoWebRequest EXCEPT !.files = TRUE],
                                     resp |-> NoWebResponse]]
                     /\ tmp_made' = tmp_made \cup {Dir(next_id, "upload"),
                                                   Dir(next_id, "prediction")}
                     /\ tmp_dirs' = tmp_dirs \cup {Dir(next_id, "upload"),
                                                   Dir(next_id, "prediction")}
                     /\ next_id' = next_id + 1
                     /\ overlapped' = (overlapped \/ OtherBusy(s))
                     /\ latest_prediction' = next_id
                  \/ \* the prediction raster cannot be written (line 720)
                     /\ Handled(s, [NoWebRequest EXCEPT !.files = TRUE],
                                ExceptClause("WriteError").resp,
                                {Dir(next_id, "upload"), Dir(next_id, "prediction")})
                     /\ tmp_dirs' = tmp_dirs \cup {Dir(next_id, "upload"),
                                                   Dir(next_id, "prediction")}
                     /\ latest_prediction' = latest_prediction
                     /\ handler_error' = [handler_error EXCEPT ![s] = "WriteError"]
    /\ UNCHANGED <<app, latest_visualization, finished, ok_sent, last_ok,
                   last_download>>

\* A faulty variant of SetLatestVisualization: the global keeps its value.
KeepLatestVisualization(old, id) == old

\* latest_visualization = visualization_file                    (line 727)
SetLatestVisualization(old, id) == id

\* Lines 726-736 and the return of the handler: create_visualization makes
\* a third directory and saves the figure; latest_visualization is set and
\* the result returned as JSON.  When the figure cannot be saved the
\* exception ends the handler with 500.
PredictViz(s) ==
    /\ app = "predictor"
    /\ slots[s].pc = "at_viz"
    /\ tmp_made' = tmp_made \cup {Dir(slots[s].id, "visualization")}
    /\ tmp_dirs' = tmp_dirs \cup {Dir(slots[s].id, "visualization")}
    /\ \/ /\ slots' = [slots EXCEPT ![s].pc = "responded", ![s].resp = WebJsonResult]
          /\ latest_visualization' =
                SetLatestVisualization(latest_visualization, slots[s].id)
          /\ last_ok' = slots[s].id
          /\ UNCHANGED handler_error
       \/ /\ slots' = [slots EXCEPT ![s].pc = "responded",
                                    ![s].resp = ExceptClause("WriteError").resp]
          /\ handler_error' = [handler_error EXCEPT ![s] = "WriteError"]
          /\ UNCHANGED <<latest_visualization, last_ok>>
    /\ UNCHANGED <<app, next_id, latest_prediction, finished, ok_sent, overlapped,
                   last_download>>

\* The server sends the response the handler returned.
SendResponse(s) ==
    /\ slots[s].pc = "responded"
    /\ finished' = finished \cup {slots[s].id}
    /\ ok_sent' = (IF slots[s].resp.status = 200 THEN ok_sent \cup {slots[s].id}
                   ELSE ok_sent)
    /\ slots' = [slots EXCEPT ![s] = IdleSlot]
    /\ handler_error' = [handler_error EXCEPT ![s] = ""]
    /\ UNCHANGED <<app, next_id, tmp_dirs, tmp_made, latest_prediction,
                   latest_visualization, last_ok, overlapped, last_download>>

\* The <file_type> of a GET /download/<file_type>: the two the page asks
\* for and another one.
FileTypes == {"prediction", "visualization", "other"}

\* A faulty variant of download: the type asked for is not looked at.
download_any_type(file_type, prediction, visualization) ==
    IF prediction # 0 THEN [status |-> 200, served |-> prediction]
    ELSE IF visualization # 0 THEN [status |-> 200, served |-> visualization]
    ELSE [status |-> 404, served |-> 0]

\* download(file_type), lines 826-835, with the values of the two globals:
\* the status and the request whose file is sent (0: none, a JSON error).
download(file_type, prediction, visualization) ==
    IF file_type = "prediction" /\ prediction # 0
    THEN [status |-> 200, served |-> prediction]
    ELSE IF file_type = "visualization" /\ visualization # 0
    THEN [status |-> 200, served |-> visualization]
    ELSE [status |-> 404, served |-> 0]

\* GET /download/<file_type>, asked by the client of a request that was
\* answered with a success or by anyone else (client 0).
Download ==
    /\ app = "predictor"
    /\ \E c \in ok_sent \cup {0} : \E kind \in FileTypes :
        \E out \in {download(kind, latest_prediction, latest_visualization)} :
          last_download' = [client |-> c, kind |-> kind,
                            status |-> out.status, served |-> out.served]
    /\ UNCHANGED <<app, next_id, slots, tmp_dirs, tmp_made, latest_prediction,
                   latest_visualization, finished, ok_sent, last_ok, overlapped,
                   handler_error>>

-----------------------------------------------------------------------------
(***************************************************************************)
(* The uploads the two stackers save (one period 586-591, multi-month      *)
(* 792-812).  A directory or a file is known by its components from the    *)
(* root: /tmp/t1/x.jp2 is <<"tmp", "t1", "x.jp2">>.  A name a client sends *)
(* (FileStorage.filename, or a month of the 'months' field) is taken as it *)
(* comes: whether it starts with '/', its directory components, and for a  *)
(* file its base name.  Permissions are not modelled: the server may write *)
(* wherever a directory exists.                                            *)
(***************************************************************************)
\* The directory components of the names a client sends are at most
\* MaxDepth long.
MaxDepth == 2
ClientDirs(n) == SeqsUpTo({"..", "sub"}, n)
ClientFiles(n) ==
    [abs : BOOLEAN, dir : ClientDirs(n),
     name : {FileName(<<"T56", "B02">>, "jp2"), FileName(<<"T56", "B02">>, "tif")}]
\* The months a client names: a month of the page, the parent directory, a
\* sibling of the temporary directory, an absolute path.
ClientMonths ==
    { [abs |-> FALSE, dir |-> <<"april">>], [abs |-> FALSE, dir |-> <<"..">>],
      [abs |-> FALSE, dir |-> <<"..", "srv">>], [abs |-> TRUE, dir |-> <<"srv">>] }

\* temp_dir = tempfile.mkdtemp()
TempDir == <<"tmp", "t1">>

\* The directories of a path: all its prefixes.
Prefixes(dir) == {SubSeq(dir, 1, n) : n \in 0..Len(dir)}
IsPrefix(dir, path) == Len(dir) <= Len(path) /\ SubSeq(path, 1, Len(dir)) = dir

\* os.path.join(base, name), up to the base name of `name`: an absolute
\* name replaces the base.
os_path_join(base, abs, dir) == IF abs THEN dir ELSE base \o dir

RECURSIVE Resolve(_, _, _)
\* The directory the kernel reaches walking the components `dir` from the
\* directory `at`, from position i on: '..' is the parent (of the root, the
\* root), a name is a directory that has to exist.  <<"?">> when it does not.
Resolve(at, dir, dirs) ==
    IF Len(dir) = 0 THEN at
    ELSE LET next == IF dir[1] = ".."
                     THEN (IF Len(at) = 0 THEN at ELSE SubSeq(at, 1, Len(at) - 1))
                     ELSE Append(at, dir[1])
         IN  IF next \in dirs THEN Resolve(next, Tail(dir), dirs) ELSE <<"?">>

\* os.makedirs(month_dir, exist_ok=True), for a month_dir with no name
\* before a '..': the directory reached and every directory on the way
\* exist afterwards.
makedirs(month_dir, dirs) ==
    LET ups  == SelectSeq(month_dir, LAMBDA c : c = "..")
        downs == SelectSeq(month_dir, LAMBDA c : c # "..")
        at   == Resolve(<<>>, ups, dirs)
    IN  dirs \cup Prefixes(at \o downs)

\* file.filename.endswith('.jp2') ... file.save(os.path.join(d, file.filename)):
\* the file is skipped when its name does not end in .jp2, open() raises
\* FileNotFoundError when its directory does not exist, and it is written
\* otherwise.
SaveUpload(d, file, dirs) ==
    IF file.name.ext # "jp2"
    THEN [did |-> "skipped", path |-> Path(<<>>, file.name)]
    ELSE LET parent == Resolve(<<>>, os_path_join(d, file.abs, file.dir), dirs)
         IN  IF parent = <<"?">>
             THEN [did |-> "raised", path |-> Path(<<>>, file.name)]
             ELSE [did |-> "saved", path |-> Path(parent, file.name)]

NoUpload == [app |-> "none", month |-> [abs |-> FALSE, dir |-> <<>>],
             file |-> [abs |-> FALSE, dir |-> <<>>, name |-> FileName(<<>>, "")]]

UpIdle ==
    /\ up_request = NoUpload
    /\ up_dirs = {}
    /\ up_written = {}
    /\ up_response = 0

\* The server before a request: the root, /tmp and /srv exist.
UpInit ==
    /\ up_request = NoUpload
    /\ up_dirs = {<<>>, <<"tmp">>, <<"srv">>}
    /\ up_written = {}
    /\ up_response = 0

\* The status of the response after the save: the handler goes on to the
\* stacker (200 or 500) when a file was saved, and 500 when the save raised;
\* with no file saved the multi-month handler answers 400 and the one-period
\* handler goes on to the stacker, which raises (500).
AfterSave(script, did) ==
    IF did = "saved" THEN {200, 500}
    ELSE IF did = "raised" THEN {500}
    ELSE IF script = "multi" THEN {400} ELSE {500}

\* POST /process of the one-period stacker with one 'sentinel_files' part,
\* lines 583-591, and the rest of the handler.
SaveSingle ==
    /\ up_response = 0
    /\ \E file \in ClientFiles(MaxDepth) :
        \E dirs \in {up_dirs \cup {TempDir}} :
          \E out \in {SaveUpload(TempDir, file, dirs)} :
            /\ up_request' = [app |-> "single", month |-> NoUpload.month, file |-> file]
            /\ up_dirs' = dirs
            /\ up_written' = (IF out.did = "saved" THEN up_written \cup {out.path}
                              ELSE up_written)
            /\ up_response' \in AfterSave("single", out.did)

\* POST /process of the multi-month stacker with one month in 'months' and
\* one '<month>_files' part, lines 783-812, and the rest of the handler.
SaveMulti ==
    /\ up_response = 0
    /\ \E month \in ClientMonths : \E file \in ClientFiles(MaxDepth) :
        \E month_dir \in {os_path_join(TempDir, month.abs, month.dir)} :
          \E dirs \in {makedirs(month_dir, up_dirs \cup {TempDir})} :
            \E out \in {SaveUpload(month_dir, file, dirs)} :
              /\ up_request' = [app |-> "multi", month |-> month, file |-> file]
              /\ up_dirs' = dirs
              /\ up_written' = (IF out.did = "saved" THEN up_written \cup {out.path}
                                ELSE up_written)
              /\ up_response' \in AfterSave("multi", out.did)

\* The finally clause, shutil.rmtree(temp_dir, ignore_errors=True), and
\* the response sent: what lies under temp_dir is gone, the rest stays.
SaveDone ==
    /\ up_response # 0
    /\ up_request' = NoUpload
    /\ up_dirs' = {d \in up_dirs : ~IsPrefix(TempDir, d)}
    /\ up_written' = {f \in up_written : ~IsPrefix(TempDir, f.dir)}
    /\ up_response' = 0

-----------------------------------------------------------------------------
(***************************************************************************)
(* Specifications.                                                         *)
(***************************************************************************)
IdxIdle  == IdxInit
MMIdle   == MMInit
AoiIdle  == AoiInit
PredIdle ==
    /\ model_file = NoModel /\ TRAINED_MODEL = NoModel
    /\ X_stack = NoStack /\ pred_result = NoPrediction

InitIdx  == IdxInit /\ S1Idle /\ MMIdle /\ AoiIdle /\ PredIdle /\ DlIdle /\ WebIdle /\ UpIdle
NextIdx  ==
    \/ ComputeIndices /\ UNCHANGED <<upVars, webVars, dlVars, s1Vars, mmVars, aoiVars, predVars>>
    \/ DropIndices /\ UNCHANGED <<upVars, webVars, dlVars, s1Vars, mmVars, aoiVars, predVars>>
SpecIdx  == InitIdx /\ [][NextIdx]_vars

InitPeriod == IdxIdle /\ PeriodInit /\ MMIdle /\ AoiIdle /\ PredIdle /\ DlIdle /\ WebIdle /\ UpIdle
NextPeriod ==
    \/ S1Call /\ UNCHANGED <<upVars, webVars, dlVars, idxVars, mmVars, aoiVars, predVars>>
    \/ MM1Call /\ UNCHANGED <<upVars, webVars, dlVars, idxVars, s1Vars, aoiVars, predVars>>
    \/ MM3Call /\ UNCHANGED <<upVars, webVars, dlVars, idxVars, s1Vars, aoiVars, predVars>>
SpecPeriod == InitPeriod /\ [][NextPeriod]_vars

InitMM   == IdxIdle /\ S1Idle /\ MMInit /\ AoiIdle /\ PredIdle /\ DlIdle /\ WebIdle /\ UpIdle
NextMM   ==
    \/ MMProcess /\ UNCHANGED <<upVars, webVars, dlVars, idxVars, s1Vars, aoiVars, predVars>>
    \/ MMProcessNoGeojson /\ UNCHANGED <<upVars, webVars, dlVars, idxVars, s1Vars, aoiVars, predVars>>
    \/ MMProcessAnyMonth /\ UNCHANGED <<upVars, webVars, dlVars, idxVars, s1Vars, aoiVars, predVars>>
    \/ MMDone /\ UNCHANGED <<upVars, webVars, dlVars, idxVars, s1Vars, aoiVars, predVars>>
SpecMM   == InitMM /\ [][NextMM]_vars

InitAoi  == IdxIdle /\ S1Idle /\ MMIdle /\ AoiInit /\ PredIdle /\ DlIdle /\ WebIdle /\ UpIdle
NextAoi  ==
    \/ LoadAoi /\ UNCHANGED <<upVars, webVars, dlVars, idxVars, s1Vars, mmVars, predVars>>
    \/ DropAoi /\ UNCHANGED <<upVars, webVars, dlVars, idxVars, s1Vars, mmVars, predVars>>
SpecAoi  == InitAoi /\ [][NextAoi]_vars

InitPred == IdxIdle /\ S1Idle /\ MMIdle /\ AoiIdle /\ PredInit /\ DlIdle /\ WebIdle /\ UpIdle
NextPred ==
    \/ LoadOrCreateModel /\ UNCHANGED <<upVars, webVars, dlVars, idxVars, s1Vars, mmVars, aoiVars>>
    \/ Predict /\ UNCHANGED <<upVars, webVars, dlVars, idxVars, s1Vars, mmVars, aoiVars>>
    \/ PredDone /\ UNCHANGED <<upVars, webVars, dlVars, idxVars, s1Vars, mmVars, aoiVars>>
SpecPred == InitPred /\ [][NextPred]_vars

InitDl   == IdxIdle /\ S1Idle /\ MMIdle /\ AoiIdle /\ PredIdle /\ DlInit /\ WebIdle /\ UpIdle
NextDl   ==
    \/ DownloadTile /\ UNCHANGED <<upVars, webVars, idxVars, s1Vars, mmVars, aoiVars, predVars>>
    \/ ExitNoTiles /\ UNCHANGED <<upVars, webVars, idxVars, s1Vars, mmVars, aoiVars, predVars>>
    \/ ClipTiles /\ UNCHANGED <<upVars, webVars, idxVars, s1Vars, mmVars, aoiVars, predVars>>
    \/ Rerun /\ UNCHANGED <<upVars, webVars, idxVars, s1Vars, mmVars, aoiVars, predVars>>
SpecDl   == InitDl /\ [][NextDl]_vars

InitWeb  == IdxIdle /\ S1Idle /\ MMIdle /\ AoiIdle /\ DlIdle /\ WebInit /\ UpIdle
NextWeb  ==
    \/ WebLoadModel /\ UNCHANGED <<upVars, idxVars, s1Vars, mmVars, aoiVars, dlVars>>
    \/ (\E s \in Slots : SingleProcess(s)) /\ UNCHANGED predVars /\ UNCHANGED <<upVars, idxVars, s1Vars, mmVars, aoiVars, dlVars>>
    \/ (\E s \in Slots : MultiProcess(s)) /\ UNCHANGED predVars /\ UNCHANGED <<upVars, idxVars, s1Vars, mmVars, aoiVars, dlVars>>
    \/ (\E s \in Slots : PredictStart(s)) /\ UNCHANGED predVars /\ UNCHANGED <<upVars, idxVars, s1Vars, mmVars, aoiVars, dlVars>>
    \/ (\E s \in Slots : PredictViz(s)) /\ UNCHANGED predVars /\ UNCHANGED <<upVars, idxVars, s1Vars, mmVars, aoiVars, dlVars>>
    \/ (\E s \in Slots : SendResponse(s)) /\ UNCHANGED predVars /\ UNCHANGED <<upVars, idxVars, s1Vars, mmVars, aoiVars, dlVars>>
    \/ Download /\ UNCHANGED predVars /\ UNCHANGED <<upVars, idxVars, s1Vars, mmVars, aoiVars, dlVars>>
SpecWeb  == InitWeb /\ [][NextWeb]_vars

\* The POST endpoints of the three servers alone (no GET /download), with
\* their threads running: a handler that can take its next step takes it,
\* and a response that was returned is sent.
NextServe ==
    \/ WebLoadModel /\ UNCHANGED <<upVars, idxVars, s1Vars, mmVars, aoiVars, dlVars>>
    \/ (\E s \in Slots : SingleProcess(s)) /\ UNCHANGED predVars /\ UNCHANGED <<upVars, idxVars, s1Vars, mmVars, aoiVars, dlVars>>
    \/ (\E s \in Slots : MultiProcess(s)) /\ UNCHANGED predVars /\ UNCHANGED <<upVars, idxVars, s1Vars, mmVars, aoiVars, dlVars>>
    \/ (\E s \in Slots : PredictStart(s)) /\ UNCHANGED predVars /\ UNCHANGED <<upVars, idxVars, s1Vars, mmVars, aoiVars, dlVars>>
    \/ (\E s \in Slots : PredictViz(s)) /\ UNCHANGED predVars /\ UNCHANGED <<upVars, idxVars, s1Vars, mmVars, aoiVars, dlVars>>
    \/ (\E s \in Slots : SendResponse(s)) /\ UNCHANGED predVars /\ UNCHANGED <<upVars, idxVars, s1Vars, mmVars, aoiVars, dlVars>>
InitSave == IdxIdle /\ S1Idle /\ MMIdle /\ AoiIdle /\ PredIdle /\ DlIdle /\ WebIdle /\ UpInit
NextSave ==
    \/ SaveSingle /\ UNCHANGED <<webVars, dlVars, idxVars, s1Vars, mmVars, aoiVars, predVars>>
    \/ SaveMulti /\ UNCHANGED <<webVars, dlVars, idxVars, s1Vars, mmVars, aoiVars, predVars>>
    \/ SaveDone /\ UNCHANGED <<webVars, dlVars, idxVars, s1Vars, mmVars, aoiVars, predVars>>
SpecSave == InitSave /\ [][NextSave]_vars

SpecServe ==
    /\ InitWeb /\ [][NextServe]_vars
    /\ \A s \in Slots : WF_webVars(PredictViz(s)) /\ WF_webVars(SendResponse(s))

-----------------------------------------------------------------------------
(***************************************************************************)
(* Properties of the stackers.  They are stated from the request and the   *)
(* files alone: the band codes, their order and the month abbreviations    *)
(* are written out here, not taken from the definitions above.             *)
(***************************************************************************)
AllBands == {"B02", "B03", "B04", "B08"}
PeriodLayout == <<"B02", "B03", "B04", "B08", "NDVI", "EVI", "SAVI">>
Abbrev(month_key) ==
    IF month_key = "april" THEN "Apr"
    ELSE IF month_key = "august" THEN "Aug"
    ELSE IF month_key = "november" THEN "Nov" ELSE "?"

\* Some file of paths is a .jp2 whose name holds the band code.
HasBandFile(paths, band) ==
    \E i \in DOMAIN paths :
        /\ paths[i].name.ext = "jp2"
        /\ \E t \in DOMAIN paths[i].name.stem : paths[i].name.stem[t] = band

MatchedBands(paths) == {b \in AllBands : HasBandFile(paths, b)}

\* The periods of month_files_dict that the stacker knows, in the order
\* April, August, November.
SuppliedPeriods ==
    SelectSeq(<<"april", "august", "november">>,
              LAMBDA k : \E i \in DOMAIN month_files_dict : month_files_dict[i].key = k)

PeriodFiles(k) ==
    month_files_dict[CHOOSE i \in DOMAIN month_files_dict :
                        month_files_dict[i].key = k].paths

\* The bands of AllBands that are in M, in the order B02, B03, B04, B08.
InBandOrder(M) == SelectSeq(<<"B02", "B03", "B04", "B08">>, LAMBDA b : b \in M)

\* C1: when every supplied period (of April, August, November) has a
\* matching .jp2 for each of B02, B03, B04, B08, process_multimonth_sentinel2
\* returns 7 x N bands, and the k-th band of the j-th supplied period is the
\* k-th of B02, B03, B04, B08, NDVI, EVI, SAVI of that period.
C1_SevenBandsPerFullPeriod ==
    ( /\ mm_result.status # "none"
      /\ Len(SuppliedPeriods) >= 1
      /\ \A j \in DOMAIN SuppliedPeriods :
            MatchedBands(PeriodFiles(SuppliedPeriods[j])) = AllBands )
    => /\ mm_result.status = "returned"
       /\ Len(mm_result.names) = 7 * Len(SuppliedPeriods)
       /\ Len(mm_result.arrays) = 7 * Len(SuppliedPeriods)
       /\ \A j \in DOMAIN SuppliedPeriods : \A k \in 1..7 :
            mm_result.names[7 * (j - 1) + k]
                = <<PeriodLayout[k], Abbrev(SuppliedPeriods[j])>>

\* C1 witness: three supplied periods, each with all four bands, stacked
\* into 21 bands.
C1_Witness ==
    /\ mm_result.status = "returned"
    /\ Len(SuppliedPeriods) = 3
    /\ \A j \in DOMAIN SuppliedPeriods :
          MatchedBands(PeriodFiles(SuppliedPeriods[j])) = AllBands
    /\ Len(mm_result.names) = 21

\* C2 (as claimed): whenever process_multimonth_sentinel2 returns, the
\* number of output bands is 7 times the number of periods with at least
\* one loaded band file.
C2_SevenTimesLoadedPeriods ==
    mm_result.status = "returned"
    => Len(mm_result.names)
         = 7 * Cardinality({j \in DOMAIN SuppliedPeriods :
                              MatchedBands(PeriodFiles(SuppliedPeriods[j])) # {}})

\* C3 (as claimed): a supplied period none of whose files matches a band
\* code contributes no band and the call does not raise.
C3_EmptyPeriodDoesNotRaise ==
    ( /\ mm_result.status # "none"
      /\ \E j \in DOMAIN SuppliedPeriods :
            MatchedBands(PeriodFiles(SuppliedPeriods[j])) = {} )
    => /\ mm_result.status = "returned"
       /\ \A j \in DOMAIN SuppliedPeriods :
            MatchedBands(PeriodFiles(SuppliedPeriods[j])) = {}
            => \A i \in DOMAIN mm_result.names :
                 mm_result.names[i][2] # Abbrev(SuppliedPeriods[j])

\* The i-th array of a result is the spectral band `band`, read from a
\* .jp2 of `paths` whose name holds the band code.
IsLoadedBand(a, band, paths) ==
    /\ a.op = "band"
    /\ \E i \in DOMAIN paths :
        /\ a.src = <<paths[i]>>
        /\ paths[i].name.ext = "jp2"
        /\ \E t \in DOMAIN paths[i].name.stem : paths[i].name.stem[t] = band

C5_IndexClosedForms ==
    \A p \in DOMAIN ndvi :
        LET hn == Halves(nir[p])
            hr == Halves(red[p])
            hb == Halves(blue[p])
            nr_missing == IsNaN(nir[p]) \/ IsNaN(red[p])
        IN  /\ IF nr_missing \/ hn + hr = 0
               THEN ndvi[p] = NaN
               ELSE /\ ndvi[p].k = "fin"
                    /\ ndvi[p].n * (hn + hr) = ndvi[p].d * (hn - hr)
            /\ IF nr_missing \/ IsNaN(blue[p]) \/ 2 * hn + 12 * hr - 15 * hb + 4 = 0
               THEN evi[p] = NaN
               ELSE /\ evi[p].k = "fin"
                    /\ evi[p].n * (2 * hn + 12 * hr - 15 * hb + 4)
                         = evi[p].d * 5 * (hn - hr)
            /\ IF nr_missing \/ hn + hr + 1 = 0
               THEN savi[p] = NaN
               ELSE /\ savi[p].k = "fin"
                    /\ savi[p].n * 2 * (hn + hr + 1) = savi[p].d * 3 * (hn - hr)

\* C5 witness: one grid with a pixel whose SAVI denominator is zero while
\* its NDVI is finite, and a pixel whose EVI denominator is zero while its
\* NDVI and SAVI are finite and not zero.
C5_Witness ==
    /\ DOMAIN ndvi # {}
    /\ \E p \in DOMAIN ndvi :
        /\ ~IsNaN(nir[p]) /\ ~IsNaN(red[p])
        /\ Halves(nir[p]) + Halves(red[p]) + 1 = 0
        /\ savi[p] = NaN /\ ndvi[p].k = "fin"
    /\ \E q \in DOMAIN ndvi :
        /\ ~IsNaN(nir[q]) /\ ~IsNaN(red[q]) /\ ~IsNaN(blue[q])
        /\ 2 * Halves(nir[q]) + 12 * Halves(red[q]) - 15 * Halves(blue[q]) + 4 = 0
        /\ evi[q] = NaN
        /\ ndvi[q].k = "fin" /\ ndvi[q].n # 0
        /\ savi[q].k = "fin" /\ savi[q].n # 0

PeriodRank(abbrev) ==
    IF abbrev = "Apr" THEN 1 ELSE IF abbrev = "Aug" THEN 2
    ELSE IF abbrev = "Nov" THEN 3 ELSE 0

\* C6: the bands of a multi-month stack come period by period in the order
\* April, August, November, whatever the order of the 'months' field and
\* of the keys of month_files_dict, and every band is labelled
\* <<band or index, Apr | Aug | Nov>> with the period whose files it was
\* read or computed from.
C6_PeriodsInCalendarOrder ==
    mm_result.status = "returned"
    => /\ \A i \in DOMAIN mm_result.names : \A j \in DOMAIN mm_result.names :
            i < j => PeriodRank(mm_result.names[i][2])
                        <= PeriodRank(mm_result.names[j][2])
       /\ \A i \in DOMAIN mm_result.names :
            /\ \E k \in DOMAIN PeriodLayout : mm_result.names[i][1] = PeriodLayout[k]
            /\ \E j \in DOMAIN SuppliedPeriods :
                /\ mm_result.names[i][2] = Abbrev(SuppliedPeriods[j])
                /\ \A t \in DOMAIN mm_result.arrays[i].src :
                    /\ \E f \in DOMAIN PeriodFiles(SuppliedPeriods[j]) :
                         PeriodFiles(SuppliedPeriods[j])[f] = mm_result.arrays[i].src[t]
                    /\ mm_result.arrays[i].src[t].dir = <<"tmp", SuppliedPeriods[j]>>

\* C6 witness: the request names november before april, the dict holds the
\* keys in that order, and the stack starts with April and ends with
\* November.
C6_Witness ==
    /\ mm_result.status = "returned"
    /\ mm_request.months = <<"november", "april">>
    /\ Len(month_files_dict) = 2
    /\ month_files_dict[1].key = "november"
    /\ month_files_dict[2].key = "april"
    /\ mm_result.names[1][2] = "Apr"
    /\ mm_result.names[Len(mm_result.names)][2] = "Nov"

\* C7: after the normalisation the AOI is tagged EPSG:4326 whatever the file
\* declared; an AOI without a CRS, or already in EPSG:4326, keeps its
\* coordinates; any other CRS has every coordinate transformed.
C7_AoiNormalizedTo4326 ==
    aoi_loaded
    => /\ aoi_norm.crs = "EPSG:4326"
       /\ Len(aoi_norm.features) = Len(aoi_file.features)
       /\ aoi_file.crs \in {"none", "EPSG:4326"}
            => aoi_norm.features = aoi_file.features
       /\ aoi_file.crs \notin {"none", "EPSG:4326"}
            => \A i \in DOMAIN aoi_file.features :
                 /\ aoi_norm.features[i].lo = aoi_file.features[i].lo \div UnitsPerDegree
                 /\ aoi_norm.features[i].hi = aoi_file.features[i].hi \div UnitsPerDegree

\* C7 witness: a file without a CRS whose coordinates a reprojection would
\* have moved is tagged EPSG:4326 with its coordinates as they were.
C7_Witness ==
    /\ aoi_loaded
    /\ aoi_file.crs = "none"
    /\ aoi_norm.crs = "EPSG:4326"
    /\ \E i \in DOMAIN aoi_file.features :
        /\ aoi_file.features[i].hi \div UnitsPerDegree # aoi_file.features[i].hi
        /\ aoi_norm.features[i] = aoi_file.features[i]

\* C8 (as claimed): the clip geometries hold every feature of the AOI, so
\* a pixel inside any feature is kept by the clip.
C8_EveryFeatureClips ==
    (aoi_loaded /\ ~aoi_geometries.raised)
    => /\ Len(aoi_geometries.geometries) = Len(aoi_norm.features)
       /\ \A px \in 0..MaxCoord :
            (\E i \in DOMAIN aoi_norm.features :
                aoi_norm.features[i].lo <= px /\ px <= aoi_norm.features[i].hi)
            => px \in aoi_kept

\* The samples of the pixel at row r, column c of X_stack, band by band.
PixelSamples(r, c) == [b \in 1..X_stack.n_bands |-> X_stack.data[b][r][c]]
PixelMissing(r, c) == \E b \in 1..X_stack.n_bands : IsNaN(X_stack.data[b][r][c])
StackCells == (1..X_stack.height) \X (1..X_stack.width)

\* C9: the rows given to the classifier are those of the pixels with no
\* missing sample; in the output map a pixel with a missing sample is the
\* missing sentinel and every other pixel holds the label of its own
\* samples (the classifier's, or the threshold rule's when there is no
\* classifier).
C9_LabelsAtTheirPixels ==
    pred_result.status = "returned"
    => /\ {<<((p - 1) \div X_stack.width) + 1, ((p - 1) % X_stack.width) + 1>> :
             p \in Range(pred_result.passed)}
            = {rc \in StackCells : ~PixelMissing(rc[1], rc[2])}
       /\ \A rc \in StackCells :
            pred_result.y_pred_map[rc[1]][rc[2]]
              = IF PixelMissing(rc[1], rc[2]) THEN NaN
                ELSE IF TRAINED_MODEL.kind = "trained"
                     THEN Int2F(ClassifierLabel(TRAINED_MODEL, PixelSamples(rc[1], rc[2])))
                     ELSE Int2F(DemoLabel(PixelSamples(rc[1], rc[2])))

\* C9 witness: a fitted classifier on a two-band stack; a pixel with one of
\* its two samples missing comes before a pixel labelled 1, and another
\* pixel is labelled 0.
C9_Witness ==
    /\ pred_result.status = "returned"
    /\ TRAINED_MODEL.kind = "trained"
    /\ X_stack.n_bands = 2
    /\ \E rc \in StackCells : \E rd \in StackCells :
        /\ rc[1] < rd[1] \/ (rc[1] = rd[1] /\ rc[2] < rd[2])
        /\ PixelMissing(rc[1], rc[2])
        /\ \E b \in 1..2 : ~IsNaN(X_stack.data[b][rc[1]][rc[2]])
        /\ pred_result.y_pred_map[rc[1]][rc[2]] = NaN
        /\ pred_result.y_pred_map[rd[1]][rd[2]] = Int2F(1)
    /\ \E re \in StackCells : pred_result.y_pred_map[re[1]][re[2]] = Int2F(0)

\* C10: in the summary, total_pixels is the number of pixels with no
\* missing sample, green_pixels the number of those labelled 1,
\* green_pixels <= total_pixels <= height * width, and green_percentage is
\* green_pixels / total_pixels * 100, or 0 when total_pixels is 0.
C10_SummaryCounts ==
    pred_result.status = "returned"
    => LET st    == pred_result.stats
           valid == {rc \in StackCells : ~PixelMissing(rc[1], rc[2])}
           green == {rc \in valid : pred_result.y_pred_map[rc[1]][rc[2]] = Int2F(1)}
       IN  /\ st.total_pixels = Cardinality(valid)
           /\ st.green_pixels = Cardinality(green)
           /\ st.green_pixels <= st.total_pixels
           /\ st.total_pixels <= X_stack.height * X_stack.width
           /\ IF st.total_pixels = 0
              THEN st.green_percentage = Int2F(0)
              ELSE /\ st.green_percentage.k = "fin"
                   /\ st.green_percentage.n * st.total_pixels
                        = st.green_percentage.d * st.green_pixels * 100

\* C10 witness: a summary with some but not all valid pixels green and some
\* pixel missing.
C10_Witness ==
    /\ pred_result.status = "returned"
    /\ 0 < pred_result.stats.green_pixels
    /\ pred_result.stats.green_pixels < pred_result.stats.total_pixels
    /\ pred_result.stats.total_pixels < X_stack.height * X_stack.width

\* The summary of a stack without any valid pixel (the threshold rule; a
\* fitted classifier raises on no row).
C10_ZeroValidReached ==
    /\ pred_result.status = "returned"
    /\ pred_result.stats.total_pixels = 0
    /\ pred_result.stats.green_percentage = Int2F(0)

\* The band the threshold rule reads in a stack of fewer than 21 bands:
\* the fifth, or the last one when there are fewer than five.
DesignatedBand == IF X_stack.n_bands >= 5 THEN 5 ELSE X_stack.n_bands

\* C11 (as claimed): without a classifier file at MODEL_PATH every POST
\* /predict is answered by the threshold rule and succeeds, whether or not
\* load_or_create_model has run before it: every valid pixel is 1 when the
\* sample of the designated band is above 0.3 and 0 otherwise.
C11_FallbackWithoutModelFile ==
    (model_file = NoModel /\ pred_result.status # "none")
    => /\ pred_result.status = "returned"
       /\ \A rc \in StackCells :
            ~PixelMissing(rc[1], rc[2])
            => LET x == X_stack.data[DesignatedBand][rc[1]][rc[2]]
               IN  pred_result.y_pred_map[rc[1]][rc[2]]
                     = IF 10 * x.n > 3 * x.d THEN Int2F(1) ELSE Int2F(0)

\* C12: every sample of the prediction raster of a call that returns is 0,
\* 1 or the missing sentinel, with a classifier and with the threshold rule.
C12_RasterIsZeroOneOrMissing ==
    pred_result.status = "returned"
    => \A r \in DOMAIN pred_result.y_pred_map :
         \A c \in DOMAIN pred_result.y_pred_map[r] :
            pred_result.y_pred_map[r][c] \in {Int2F(0), Int2F(1), NaN}

\* C12 witness: a raster written on the classifier path that holds a 0, a 1
\* and a missing sample.
C12_Witness ==
    /\ pred_result.status = "returned"
    /\ TRAINED_MODEL.kind = "trained"
    /\ \A v \in {Int2F(0), Int2F(1), NaN} :
        \E r \in DOMAIN pred_result.y_pred_map :
          \E c \in DOMAIN pred_result.y_pred_map[r] :
            pred_result.y_pred_map[r][c] = v

\* A raster written by the threshold rule that holds a 0, a 1 and a missing
\* sample.
C12_ThresholdRasterReached ==
    /\ pred_result.status = "returned"
    /\ TRAINED_MODEL.kind = "none"
    /\ \A v \in {Int2F(0), Int2F(1), NaN} :
        \E r \in DOMAIN pred_result.y_pred_map :
          \E c \in DOMAIN pred_result.y_pred_map[r] :
            pred_result.y_pred_map[r][c] = v

\* C18: the normalisation of the stackers and the one of the downloader
\* (where it returns) are idempotent: an AOI declared in EPSG:4326 keeps
\* its coordinates, and normalising the normalised AOI again gives the
\* normalised AOI.
C18_NormalizationIdempotent ==
    aoi_loaded
    => /\ aoi_file.crs = "EPSG:4326" => aoi_norm.features = aoi_file.features
       /\ NormalizeAoi(aoi_norm) = aoi_norm
       /\ ~aoi_wc.raised
            => /\ aoi_file.crs = "EPSG:4326"
                    => aoi_wc.aoi.features = aoi_file.features
               /\ WcNormalizeAoi(aoi_wc.aoi) = aoi_wc

\* C18 witness: an AOI in another CRS whose coordinates the first
\* normalisation moved and a second one would move again if it transformed.
C18_Witness ==
    /\ aoi_loaded
    /\ aoi_file.crs = "EPSG:3857"
    /\ \E i \in DOMAIN aoi_file.features :
        /\ aoi_norm.features[i] # aoi_file.features[i]
        /\ aoi_norm.features[i].hi \div UnitsPerDegree # aoi_norm.features[i].hi
    /\ NormalizeAoi(aoi_norm) = aoi_norm

\* The tiles whose call gave a path, in the order of the tile list.
TilesWithPath ==
    SelectSeq(WORLDCOVER_TILES, LAMBDA t : dl_log[t].path # 0)

\* C17: in a run of the downloader no tile is tried more than once; when
\* the run has left the loop every tile was tried exactly once, also the
\* tiles after one that gave no path; the run exits with status 1, without
\* clipping, only when no tile gave a path, and otherwise clips exactly the
\* tiles that gave a path.
C17_EveryTileOnceThenClipOrExit ==
    dl_phase # "none"
    => /\ \A t \in DOMAIN dl_log : dl_log[t].calls <= 1
       /\ \A t \in DOMAIN dl_log : (dl_log[t].calls = 1) = (t < dl_pos)
       /\ dl_phase \in {"exited", "clipped"}
            => \A t \in DOMAIN dl_log : dl_log[t].calls = 1
       /\ dl_phase = "exited" => (TilesWithPath = <<>> /\ clip_tiles = <<>>)
       /\ dl_phase = "clipped" => (TilesWithPath # <<>> /\ clip_tiles = TilesWithPath)
       /\ dl_phase = "loop" => clip_tiles = <<>>

\* C17 witness: the first tile failed, a later one gave a path, and the
\* run clipped without the failed tile.
C17_Witness ==
    /\ dl_phase = "clipped"
    /\ Len(WORLDCOVER_TILES) >= 2
    /\ dl_log[1].calls = 1 /\ dl_log[1].path = 0
    /\ \E t \in DOMAIN dl_log : t > 1 /\ dl_log[t].path = t
    /\ Len(clip_tiles) < Len(WORLDCOVER_TILES)

\* A run in which every tile failed exits with status 1.
C17_ExitReached ==
    /\ dl_phase = "exited"
    /\ Len(WORLDCOVER_TILES) >= 2
    /\ \A t \in DOMAIN dl_log : dl_log[t].calls = 1 /\ dl_log[t].path = 0

-----------------------------------------------------------------------------
(***************************************************************************)
(* Properties of the band lists of the two stackers.                       *)
(***************************************************************************)
\* The file the array named `label` was read from.
SrcOf(names, arrays, label) ==
    arrays[CHOOSE i \in DOMAIN names : names[i] = label].src[1]

\* Array a is what the name says: for a band code, the band read from a
\* .jp2 of `paths` whose name holds the code; for an index, that index
\* computed from the arrays named B08, B04 (and B02) of the same period,
\* where lab(b) is the name of band b in that period.
Describes(name, a, names, arrays, paths, lab(_)) ==
    IF name \in AllBands
    THEN IsLoadedBand(a, name, paths)
    ELSE /\ name \in {"NDVI", "EVI", "SAVI"}
         /\ a.op = name
         /\ \A b \in {"B08", "B04", "B02"} : \E i \in DOMAIN names : names[i] = lab(b)
         /\ a.src = IF name = "EVI"
                    THEN << SrcOf(names, arrays, lab("B08")),
                            SrcOf(names, arrays, lab("B04")),
                            SrcOf(names, arrays, lab("B02")) >>
                    ELSE << SrcOf(names, arrays, lab("B08")),
                            SrcOf(names, arrays, lab("B04")) >>

\* C28: in both stackers the list of band names is as long as the list of
\* band arrays and the i-th name describes the i-th array; the labels of one
\* multi-month output are pairwise distinct.
C28_NamesDescribeArrays ==
    /\ s1_result.status # "none"
       => /\ Len(s1_result.names) = Len(s1_result.arrays)
          /\ \A i \in DOMAIN s1_result.names :
                Describes(s1_result.names[i], s1_result.arrays[i],
                          s1_result.names, s1_result.arrays, sentinel_files,
                          LAMBDA b : b)
    /\ mm_result.status # "none"
       => /\ Len(mm_result.names) = Len(mm_result.arrays)
          /\ \A i \in DOMAIN mm_result.names :
                \E j \in DOMAIN SuppliedPeriods :
                    /\ mm_result.names[i][2] = Abbrev(SuppliedPeriods[j])
                    /\ Describes(mm_result.names[i][1], mm_result.arrays[i],
                                 mm_result.names, mm_result.arrays,
                                 PeriodFiles(SuppliedPeriods[j]),
                                 LAMBDA b : <<b, mm_result.names[i][2]>>)
          /\ \A i, j \in DOMAIN mm_result.names :
                i # j => mm_result.names[i] # mm_result.names[j]

\* C28 witness: the same four band files went through the one-period
\* stacker (7 names) and, as three periods, through the multi-month stacker
\* (21 names).
C28_Witness ==
    /\ s1_result.status = "returned" /\ Len(s1_result.names) = 7
    /\ mm_result.status = "returned" /\ Len(mm_result.names) = 21

\* C29: in process_sentinel2_data, whenever the indices are computed, the
\* arrays at positions 0, 1, 2, 3 are the bands B02, B03, B04, B08, each read
\* from a .jp2 whose name holds its code, and the indices read positions 3
\* (NIR), 2 (red) and 0 (blue) -- whatever the order of the uploaded files.
C29_IndexInputsAreTheirBands ==
    (s1_result.status = "returned"
        /\ \E i \in DOMAIN s1_result.names : s1_result.names[i] \in {"NDVI", "EVI", "SAVI"})
    => /\ Len(s1_result.arrays) = 7
       /\ \A k \in 1..4 :
            /\ s1_result.names[k] = <<"B02", "B03", "B04", "B08">>[k]
            /\ IsLoadedBand(s1_result.arrays[k], <<"B02", "B03", "B04", "B08">>[k],
                            sentinel_files)
       /\ LET blue_file == s1_result.arrays[1].src[1]
              red_file  == s1_result.arrays[3].src[1]
              nir_file  == s1_result.arrays[4].src[1]
          IN  /\ s1_result.arrays[5].op = "NDVI"
              /\ s1_result.arrays[5].src = <<nir_file, red_file>>
              /\ s1_result.arrays[6].op = "EVI"
              /\ s1_result.arrays[6].src = <<nir_file, red_file, blue_file>>
              /\ s1_result.arrays[7].op = "SAVI"
              /\ s1_result.arrays[7].src = <<nir_file, red_file>>

\* C29 witness: the four band files were uploaded with B08 first and B02
\* last, and the indices were computed.
C29_Witness ==
    /\ Len(sentinel_files) = 4
    /\ sentinel_files[1].name.stem[2] = "B08"
    /\ sentinel_files[4].name.stem[2] = "B02"
    /\ s1_result.status = "returned"
    /\ Len(s1_result.names) = 7

-----------------------------------------------------------------------------
(***************************************************************************)
(* Properties of the files of the downloader.                              *)
(***************************************************************************)
\* C25 (as claimed): a path returned by download_worldcover_tile names a
\* completely downloaded tile, in every run.
C25_PathNamesCompleteTile ==
    \A t \in DOMAIN dl_log :
        dl_log[t].path # 0 => dl_disk[t] = "complete"

\* C30 (as claimed): clip_to_aoi writes the merged file only when it is
\* given more than one tile, and when it has ended, by return or by
\* exception, the '_temp_merged.tif' file does not exist.
C30_TempMergedGoneAfterClip ==
    dl_phase = "clipped"
    => /\ clip_outcome.merged => Len(clip_tiles) > 1
       /\ ~temp_merged

-----------------------------------------------------------------------------
(***************************************************************************)
(* Properties of POST /process of the multi-month stacker.                 *)
(***************************************************************************)
\* Some month the 'months' field names has an uploaded file whose name
\* ends in .jp2.
NamedMonthHasJp2(req) ==
    \E i \in DOMAIN req.months :
        /\ req.months[i] # ""
        /\ \E j \in DOMAIN req.files[req.months[i]] :
              req.files[req.months[i]][j].ext = "jp2"

\* The months the 'months' field names.
NamedMonths(req) == {req.months[i] : i \in DOMAIN req.months} \ {""}

C21_StrayMonthIgnored ==
    /\ mm_response.body = "file"
    /\ mm_response.bands_in_name = 7
    /\ Cardinality({m \in UploadMonths : Len(mm_request.files[m]) = 4}) >= 2

\* The periods that contributed at least one band to the stack.
ContributingPeriods == {mm_result.names[i][2] : i \in DOMAIN mm_result.names}

\* C27 (as claimed): the month count and the band count in the download
\* name are the number of periods that contributed at least one band to the
\* stack and the number of bands of the stack; a request whose 'months'
\* field names no period of april, august, november is not answered with a
\* success.
C27_NameCountsMatchStack ==
    /\ mm_response.body = "file"
       => /\ mm_response.months_in_name = Cardinality(ContributingPeriods)
          /\ mm_response.bands_in_name = Len(mm_result.arrays)
    /\ (mm_response.status # 0
           /\ NamedMonths(mm_request) \cap {"april", "august", "november"} = {})
       => mm_response.status # 200

-----------------------------------------------------------------------------
(***************************************************************************)
(* Properties of the three web scripts as servers.                         *)
(***************************************************************************)
\* The threads whose handler has returned a response not yet sent.
Responded == {s \in Slots : slots[s].pc = "responded"}

\* No request is being handled.
Quiescent == \A s \in Slots : slots[s].pc = "idle"

\* C13 (as claimed): every response of a POST endpoint is a 200 raster file
\* or a JSON error with another status.
C13_FileOrJsonError ==
    \A s \in Responded :
        \/ slots[s].resp.status = 200 /\ slots[s].resp.body = "file"
        \/ slots[s].resp.status # 200 /\ slots[s].resp.body = "json_error"

\* C13 (amended): every response of POST /process of the two stackers is a
\* 200 raster file or a JSON error with another status; every response of
\* POST /predict is a 200 JSON result (stats and visualization) or a JSON
\* error with another status.
C13_FileOrResultOrJsonError ==
    \A s \in Responded :
        \/ /\ slots[s].resp.status = 200
           /\ slots[s].resp.body = (IF app = "predictor" THEN "json_result" ELSE "file")
        \/ slots[s].resp.status # 200 /\ slots[s].resp.body = "json_error"

\* C13 witness: a POST /predict answered with 200 and a JSON result.
C13_Witness ==
    /\ app = "predictor"
    /\ \E s \in Responded :
        slots[s].resp.status = 200 /\ slots[s].resp.body = "json_result"

\* C14 (as claimed): when the POST /predict requests were handled one at a
\* time and none is being handled, both download pointers name the outputs
\* of the last request that returned a success (none when there was no
\* success); a request that ended in an error changed neither.
C14_PointersOfLastSuccess ==
    (app = "predictor" /\ ~overlapped /\ Quiescent)
    => /\ latest_prediction = last_ok
       /\ latest_visualization = last_ok

\* C15: the two pointers are written by every request without a lock, the
\* last writer wins.  With no request under way and the owner of
\* latest_prediction answered with a success, the two pointers name
\* different requests only if two requests were handled concurrently.
C15_MixedPointersNeedARace ==
    (app = "predictor" /\ Quiescent /\ latest_prediction \in ok_sent
        /\ latest_prediction # latest_visualization)
    => overlapped

\* C15 witness: request a has been answered with a success while request b
\* is still handled; a's client downloads the prediction and is served
\* b's; latest_prediction is b's and latest_visualization is a's.
C15_Witness ==
    \E a \in ok_sent : \E s \in Slots :
        /\ slots[s].pc = "at_viz"
        /\ slots[s].id # a
        /\ last_download = [client |-> a, kind |-> "prediction", status |-> 200,
                            served |-> slots[s].id]
        /\ latest_prediction = slots[s].id
        /\ latest_visualization = a

\* Two requests both answered with a success, none under way, and the
\* pointers name one each.
C15_MixedAfterBothSucceeded ==
    /\ Quiescent
    /\ latest_prediction \in ok_sent
    /\ latest_visualization \in ok_sent
    /\ latest_prediction # latest_visualization

\* C16 (as claimed): no temporary directory of a request whose response
\* has been sent remains, and a directory is removed only after the
\* response of its request has been sent.
C16_TempDirsRemovedAfterSend ==
    \A d \in tmp_made :
        /\ d.req \in finished => d \notin tmp_dirs
        /\ d \notin tmp_dirs => d.req \in finished

\* Every polygon of the AOI is empty (also: the AOI has no polygon).
NoGeometry(aoi) ==
    \A i \in DOMAIN aoi.features : aoi.features[i].lo > aoi.features[i].hi

\* C19: a request to a stacker whose AOI has no geometry or only empty
\* geometries is answered with a JSON error, and no raster sent as a
\* success is without pixels.
C19_EmptyAoiIsAnError ==
    \A s \in Responded :
        /\ (app \in {"single", "multi"} /\ slots[s].req.geojson = "present"
                /\ NoGeometry(slots[s].req.aoi))
            => (slots[s].resp.status # 200 /\ slots[s].resp.body = "json_error")
        /\ slots[s].resp.body = "file" => slots[s].resp.raster # {}

\* C19 witness: a request with band files and an AOI of one empty polygon,
\* answered with 500.
C19_Witness ==
    \E s \in Responded :
        /\ app \in {"single", "multi"}
        /\ slots[s].req.files
        /\ Len(slots[s].req.aoi.features) = 1
        /\ NoGeometry(slots[s].req.aoi)
        /\ slots[s].resp = WebJsonError(500)

\* A request lacks a file part its endpoint requires.
LacksPart(req) ==
    IF app = "predictor" THEN ~req.files
    ELSE req.geojson # "present" \/ ~req.files

\* C20 (as claimed): a POST that lacks a required file part is answered
\* with 400 and a JSON error, and no temporary directory is made for it.
C20_MissingPartIs400 ==
    \A s \in Responded :
        LacksPart(slots[s].req)
        => /\ slots[s].resp.status = 400
           /\ slots[s].resp.body = "json_error"
           /\ \A d \in tmp_made : d.req # slots[s].id

\* C22: an exception raised in a handler after the request's inputs were
\* accepted (its temporary directory was made) is answered with status 500
\* and a JSON error: the handler returns a response and that response is
\* no file.
C22_ExceptionIs500Json ==
    \A s \in Slots :
        (handler_error[s] # "" /\ \E d \in tmp_made : d.req = slots[s].id)
        => /\ slots[s].pc = "responded"
           /\ slots[s].resp.status = 500
           /\ slots[s].resp.body = "json_error"
           /\ slots[s].resp.raster = {}

\* C22 witness: a stacker met a band file it could not open and answered
\* 500 with a JSON error.
C22_Witness ==
    \E s \in Responded :
        /\ app \in {"single", "multi"}
        /\ handler_error[s] = "RasterioIOError"
        /\ slots[s].resp = WebJsonError(500)

\* The other failures of the claim: a GeoJSON that cannot be read, a clip
\* that keeps nothing, an output that cannot be written (in each script).
C22_BadVectorReached ==
    \E s \in Responded : handler_error[s] = "DriverError"
C22_FailedClipReached ==
    \E s \in Responded : handler_error[s] = "NoDataInBounds"
C22_FailedWriteReached ==
    \E s \in Responded : handler_error[s] = "WriteError" /\ app = "multi"
C22_PredictorWriteReached ==
    \E s \in Responded :
        /\ handler_error[s] = "WriteError" /\ app = "predictor"
        /\ slots[s].resp = WebJsonError(500)

\* The file a pointer of the predictor names.
PointerFile(kind, ptr) == Dir(ptr, kind)

\* C23: GET /download/<file_type> answers 404 exactly when file_type is
\* neither 'prediction' nor 'visualization' or the pointer of that type is
\* empty; otherwise it serves the file the pointer names, which exists; a
\* pointer that has been set is never empty again.
C23_DownloadIs404IffNoPointer ==
    [][ /\ latest_prediction # 0 => latest_prediction' # 0
        /\ latest_visualization # 0 => latest_visualization' # 0
        /\ latest_prediction # 0
              => PointerFile("prediction", latest_prediction) \in tmp_dirs
        /\ latest_visualization # 0
              => PointerFile("visualization", latest_visualization) \in tmp_dirs
        /\ last_download' # last_download
           => LET d == last_download'
                  ptr == IF d.kind = "prediction" THEN latest_prediction
                         ELSE IF d.kind = "visualization" THEN latest_visualization
                         ELSE 0
              IN  /\ d.status \in {200, 404}
                  /\ d.status = 404 <=> ptr = 0
                  /\ d.status = 200 => d.served = ptr
      ]_vars

\* C23 witness: a download of the prediction was served while no
\* visualization has ever been written: the request that set the pointer
\* is still at create_visualization.
C23_Witness ==
    /\ last_download.kind = "prediction"
    /\ last_download.status = 200
    /\ latest_visualization = 0
    /\ finished = {}

\* Downloads answered 404: of the visualization while the prediction
\* pointer is set, and of another file type while both are set.
C23_VisualizationMissingReached ==
    /\ last_download.kind = "visualization"
    /\ last_download.status = 404
    /\ latest_prediction # 0
C23_OtherTypeReached ==
    /\ last_download.kind = "other"
    /\ last_download.status = 404
    /\ latest_prediction # 0 /\ latest_visualization # 0

\* C24: every POST request gets exactly one response.  A request that was
\* begun is either handled by one thread or answered, never both and never
\* neither; the handler of a request can take its next step whatever the
\* other thread does, and what it returns is a response; and every request
\* begun is answered in the end.
C24_ExactlyOneResponse ==
    /\ [](\A id \in 1..(next_id - 1) :
            Cardinality({s \in Slots : slots[s].id = id})
                + (IF id \in finished THEN 1 ELSE 0) = 1)
    /\ [](\A s \in Slots :
            /\ slots[s].pc \in {"idle", "at_viz", "responded"}
            /\ slots[s].pc = "at_viz" => ENABLED PredictViz(s)
            /\ slots[s].pc = "responded"
                  => (slots[s].resp.status # 0 /\ ENABLED SendResponse(s)))
    /\ \A id \in 1..MaxRequests :
            (\E s \in Slots : slots[s].id = id) ~> (id \in finished)

\* C24 witness: both threads are in a handler of POST /predict, past the
\* prediction and before the figure, and no request has been answered.
C24_Witness ==
    /\ \A s \in Slots : slots[s].pc = "at_viz"
    /\ finished = {}

-----------------------------------------------------------------------------
(***************************************************************************)
(* Properties of the uploads the stackers save.                            *)
(***************************************************************************)
\* C26 (as claimed): every file a /process handler writes from an upload
\* lies inside the temporary directory of the request, whatever file name
\* and month name the client sent.
C26_UploadsStayInTempDir ==
    \A f \in up_written : IsPrefix(TempDir, f.dir)

=============================================================================
